---- MODULE Spec2Model ----
(***************************************************************************)
(* State-machine model of the ext2 VFS adaptation layer (fs_ext2.c):       *)
(* the fixed open-file-handle table fh[], the global mutex ext2_mutex,     *)
(* the block-oriented read/seek machinery and the structural mutators,     *)
(* running against a small model of the inode/directory backend.           *)
(***************************************************************************)
EXTENDS Integers, Naturals, Sequences, FiniteSets, TLC

(***************************************************************************)
(* Program constants and model bounds                                      *)
(***************************************************************************)

\* #define MAX_EXT2_FILES 16
MAX_EXT2_FILES == 16

\* Stand-in for 2^64, the width of fh[].ptr (uint64_t): arithmetic on the
\* cursor wraps modulo this value.  It is kept far above every size and
\* offset of the model, as 2^64 is above every file size (i_size is 32 bit).
U64 == 64

\* Largest file size (bytes) and largest log2 block size drawn by the
\* read/seek specification.
MaxSize == 6
MaxLogBlock == 2

\* Largest number of slots the callers of the concurrent specification keep
\* in use at once (the callers' restraint, not a limit of the code).
MaxOpen == 2

\* Largest number of slots in use that the callers opened with mode 0.
MaxPlain == 1

\* Largest length a read asks for, and largest distance a seek asks for.
MaxLen == 7

\* Largest number of entries, live or deleted, a listed directory holds
\* besides "." and "..".
MaxDirLen == 4

\* Largest record length of an entry, and largest number of entries
\* besides "." and "..", of the directories whose record lengths vary.
MaxRecLen == 2
MaxRecEntries == 3

\* Largest number of mount records allocated at one time.
MaxMounts == 3

\* Backend failures are injected only while every inode has fewer than
\* this many outstanding references (a failure path may leak one).
MaxRefs == 3

\* The calling threads.
Threads == {1, 2}

\* fh[].inode_num = -1: "slot reserved, resolution in progress".  As a
\* uint32_t it is 0xFFFFFFFF, different from 0 and from every inode number
\* of the model.
SENTINEL == 0 - 1

\* Inode numbers of the modelled volume.  ROOT_INO is the ext2 root inode.
ROOT_INO == 2
Inos == 2..7

Slots == 0..(MAX_EXT2_FILES - 1)

(***************************************************************************)
(* Paths.  A path is the sequence of its characters; "/" is the separator  *)
(* and every other token stands for one name.                              *)
(***************************************************************************)
SEP == "/"

\* strrchr(cp, '/'): index of the last separator, 0 when there is none.
StrRChr(p) ==
    IF \E i \in 1..Len(p) : p[i] = SEP
    THEN CHOOSE i \in 1..Len(p) : p[i] = SEP /\ \A j \in (i+1)..Len(p) : p[j] # SEP
    ELSE 0

\* "*ent++ = 0": the part before the last separator, and the part after it.
ParentOf(p) == SubSeq(p, 1, StrRChr(p) - 1)
LeafOf(p) == SubSeq(p, StrRChr(p) + 1, Len(p))

\* The names of a path, separators dropped (empty components are skipped).
Components(p) == SelectSeq(p, LAMBDA c : c # SEP)

(***************************************************************************)
(* State                                                                   *)
(***************************************************************************)
VARIABLES
    fh,           \* the handle table: fh[fd] = [inode_num, mode, ptr, dent,
                  \* inode, fs]
    lock,         \* ext2_mutex: 0 when free, else the thread holding it
    pc,           \* per thread: where it stands in its current call
    call,         \* per thread: the call it is making, or made last
    ret,          \* per thread: what its last call returned (rv, errno)
    fd,           \* per thread: the local fd of fs_ext2_open
    held,         \* the callers' view: handles returned by open and not yet
                  \* passed to close
    inodes,       \* backend: inode number -> [type, size, links]
    dirs,         \* backend: directory inode -> its entries in layout order
    refs,         \* backend: inode number -> references handed out and not put
    ub,           \* an out-of-bounds access or an invalid ext2_inode_put happened
    mount_flags,  \* the mount's flags: the set of flags that are set
    lbs,          \* ext2_log_block_size(fs); the block size is 2^lbs
    snap,         \* the callers' view: the path of the last mkdir, when it
                  \* succeeded and no mkdir or rmdir followed, with the
                  \* inodes and directories it started from
    ext2_fses,    \* the mount registry: the records on the list, head first
    mnts,         \* mount record -> [mem, mp, flags]: the memory of the
                  \* fs_ext2_fs_t and its vfs_handler_t ("none" when not
                  \* allocated, "live", "freed"), and what they hold
    nmmgr         \* the records whose handler is registered with the VFS

vars == <<fh, lock, pc, call, ret, fd, held, inodes, dirs, refs, ub,
          mount_flags, lbs, snap, ext2_fses, mnts, nmmgr>>

\* No mkdir to remember.
NoSnap == [fn |-> <<>>, inodes |-> <<>>, dirs |-> <<>>]

\* The mount (fs_ext2_fs_t *) the calls of the model go through.
MNT == 1

\* A second mount, of another volume, and the distance between an inode
\* number of that volume and the place of its inode object in the model.
MNT2 == 2
OtherBase == 10

FS_EXT2_MOUNT_READWRITE == "FS_EXT2_MOUNT_READWRITE"

\* The mount records there is memory for.
Mounts == 1..MaxMounts

\* A record that is not allocated.
NoMount == [mem |-> "none", mp |-> <<>>, flags |-> {}]

\* The mount point of the mount the file operations act on.
PathMnt == <<SEP, "ext2">>

\* The registry after fs_ext2_mount(PathMnt, dev, flags) succeeded.
InitRegistry ==
    /\ ext2_fses = <<MNT>>
    /\ mnts = [i \in Mounts |->
                 IF i = MNT THEN [mem |-> "live", mp |-> PathMnt, flags |-> mount_flags]
                 ELSE NoMount]
    /\ nmmgr = {MNT}

(***************************************************************************)
(* Backend: inodes and directories (the ext2_inode and ext2_dir calls)     *)
(***************************************************************************)

\* A directory entry; inode = 0 marks a deleted entry.  rec_len is the
\* distance to the next entry, in units of the smallest entry.
DirentLen(i, nm, rl) == [inode |-> i, name |-> nm, rec_len |-> rl]

\* An entry that takes no more room than it needs.
Dirent(i, nm) == DirentLen(i, nm, 1)

\* (i_mode & 0xF000) == EXT2_S_IFDIR
IsDir(ino) == inodes[ino].type = "dir"

\* ext2_dir_entry(fs, dir, name): the position of the live entry called
\* `leaf`, 0 when there is none.  `leaf` is a path fragment: it names an
\* entry only when it is a single name.
DirEntryIn(d, dir, leaf) ==
    IF Len(leaf) = 1 /\ \E i \in 1..Len(d[dir]) :
                            d[dir][i].inode # 0 /\ d[dir][i].name = leaf[1]
    THEN CHOOSE i \in 1..Len(d[dir]) :
             /\ d[dir][i].inode # 0 /\ d[dir][i].name = leaf[1]
             /\ \A j \in 1..(i-1) :
                    ~(d[dir][j].inode # 0 /\ d[dir][j].name = leaf[1])
    ELSE 0

DirEntry(dir, leaf) == DirEntryIn(dirs, dir, leaf)

\* The inode number a live entry of `dir` gives to `leaf`, 0 when none.
DirLookupIn(d, dir, leaf) ==
    IF DirEntryIn(d, dir, leaf) = 0 THEN 0
    ELSE d[dir][DirEntryIn(d, dir, leaf)].inode

DirLookup(dir, leaf) == DirLookupIn(dirs, dir, leaf)

\* ext2_dir_rm_entry: the entry is tombstoned in place.
RmEntry(d, dir, leaf) ==
    [d EXCEPT ![dir][DirEntryIn(d, dir, leaf)].inode = 0]

\* ext2_dir_add_entry: the first deleted entry is reused, else the entry is
\* appended.
AddEntry(d, dir, leaf, ino) ==
    IF \E i \in 1..Len(d[dir]) : d[dir][i].inode = 0
    THEN LET i == CHOOSE k \in 1..Len(d[dir]) :
                      d[dir][k].inode = 0 /\ \A j \in 1..(k-1) : d[dir][j].inode # 0
         IN  [d EXCEPT ![dir][i] = Dirent(ino, leaf[1])]
    ELSE [d EXCEPT ![dir] = Append(@, Dirent(ino, leaf[1]))]

\* ext2_dir_redir_entry: the live entry `leaf` of `dir` now refers to `ino`.
RedirEntry(d, dir, leaf, ino) ==
    [d EXCEPT ![dir][DirEntryIn(d, dir, leaf)].inode = ino]

\* ext2_inode_deref(fs, ino, isdir): the link count drops (a directory also
\* loses its own "." link); at zero the inode and its blocks are freed.
InodeDeref(ins, ino, isdir) ==
    LET k == IF isdir THEN 2 ELSE 1
        n == IF ins[ino].links > k THEN ins[ino].links - k ELSE 0
    IN  IF n = 0 THEN [ins EXCEPT ![ino] = [type |-> "free", size |-> 0, links |-> 0]]
        ELSE [ins EXCEPT ![ino].links = n]

\* The directory contents that go with InodeDeref freeing a directory.
DerefDirs(d, ins, ino, isdir) ==
    IF InodeDeref(ins, ino, isdir)[ino].type = "free"
    THEN [d EXCEPT ![ino] = <<>>] ELSE d

\* ext2_inode_by_path(fs, path, ...): walk the names of `path` from the
\* root.  Gives [err, ino]: err = "" and the inode number, or the error.
RECURSIVE Walk(_, _)
Walk(cur, names) ==
    IF names = <<>> THEN [err |-> "", ino |-> cur]
    ELSE IF ~IsDir(cur) THEN [err |-> "ENOTDIR", ino |-> 0]
    ELSE IF DirLookup(cur, <<Head(names)>>) = 0 THEN [err |-> "ENOENT", ino |-> 0]
    ELSE Walk(DirLookup(cur, <<Head(names)>>), Tail(names))

InodeByPath(path) == Walk(ROOT_INO, Components(path))

\* Where the inode objects of a mount lie: those of MNT are known by their
\* inode numbers, those of the second mount by OtherBase + inode number.
InodeKey(m, ino) == IF m = MNT THEN ino ELSE OtherBase + ino

\* ext2_inode_by_path on the volume of mount m.
RECURSIVE WalkOn(_, _, _)
WalkOn(m, cur, names) ==
    IF names = <<>> THEN [err |-> "", ino |-> cur]
    ELSE IF ~IsDir(InodeKey(m, cur)) THEN [err |-> "ENOTDIR", ino |-> 0]
    ELSE IF DirLookup(InodeKey(m, cur), <<Head(names)>>) = 0
    THEN [err |-> "ENOENT", ino |-> 0]
    ELSE WalkOn(m, DirLookup(InodeKey(m, cur), <<Head(names)>>), Tail(names))

InodeByPathOn(m, path) ==
    IF m = MNT THEN InodeByPath(path) ELSE WalkOn(m, ROOT_INO, Components(path))

\* ext2_inode_get / a successful ext2_inode_by_path: one more reference.
RefGet(r, ino) == [r EXCEPT ![ino] = @ + 1]

\* ext2_inode_put(p): one reference less.  p = 0 is a null pointer.
PutOK(r, p) == p # 0 /\ r[p] > 0
RefPut(r, p) == IF PutOK(r, p) THEN [r EXCEPT ![p] = @ - 1] ELSE r

(***************************************************************************)
(* Calls and their results                                                 *)
(***************************************************************************)

\* One call of the operation table: the operation and its arguments.
\*   fn, fn2  paths;  mode  the set of open flags that are set;  h  the handle;
\*   n  a length or an offset;  whence  the seek origin;
\*   fail  the backend step that fails during the call ("" for none);
\*   mnt  the mount whose handler is called (vfs->privdata).
Call(op, fn, fn2, mode, h, n, whence, fail) ==
    [op |-> op, fn |-> fn, fn2 |-> fn2, mode |-> mode, h |-> h, n |-> n,
     whence |-> whence, fail |-> fail, mnt |-> MNT]

NoCall == Call("none", <<>>, <<>>, {}, 0, 0, "", "")

\* What a call returned: its return value and the errno it set ("" when it
\* set none).  Pending stands for a call that has not returned.
Ret(rv, e) == [rv |-> rv, errno |-> e, flags |-> {}]
Pending == Ret(0, "pending")

\* The table as memset(fh, 0, sizeof(fh)) leaves it.
FreeSlot ==
    [inode_num |-> 0, mode |-> {}, ptr |-> 0, dent |-> "", inode |-> 0, fs |-> 0]

\* Slots whose inode_num is non-zero.
InUse == {s \in Slots : fh[s].inode_num # 0}

(***************************************************************************)
(* Initial state: fs_ext2_init has run and one volume is mounted:          *)
(*   /a/x and /b/y are regular files, /a and /b directories.               *)
(***************************************************************************)
InitVolume(sz) ==
    /\ inodes = [i \in Inos |->
                   CASE i = 2 -> [type |-> "dir", size |-> 0, links |-> 4]
                     [] i = 3 -> [type |-> "dir", size |-> 0, links |-> 2]
                     [] i = 4 -> [type |-> "dir", size |-> 0, links |-> 2]
                     [] i = 5 -> [type |-> "reg", size |-> sz, links |-> 1]
                     [] i = 6 -> [type |-> "reg", size |-> 1, links |-> 1]
                     [] OTHER -> [type |-> "free", size |-> 0, links |-> 0]]
    /\ dirs = [i \in Inos |->
                   CASE i = 2 -> <<Dirent(2, "."), Dirent(2, ".."),
                                   Dirent(3, "a"), Dirent(4, "b")>>
                     [] i = 3 -> <<Dirent(3, "."), Dirent(2, ".."), Dirent(5, "x")>>
                     [] i = 4 -> <<Dirent(4, "."), Dirent(2, ".."), Dirent(6, "y")>>
                     [] OTHER -> <<>>]

InitWith(sizes, logs, flagsets) ==
    /\ fh = [s \in Slots |-> FreeSlot]
    /\ lock = 0
    /\ pc = [t \in Threads |-> "idle"]
    /\ call = [t \in Threads |-> NoCall]
    /\ ret = [t \in Threads |-> Ret(0, "")]
    /\ fd = [t \in Threads |-> 0]
    /\ held = {}
    /\ \E sz \in sizes : InitVolume(sz)
    /\ refs = [i \in Inos |-> 0]
    /\ ub = FALSE
    /\ mount_flags \in flagsets
    /\ lbs \in logs
    /\ snap = NoSnap
    /\ InitRegistry

(***************************************************************************)
(* Entering and leaving a call                                             *)
(***************************************************************************)

\* Mutators that make no check of the mount's flags, nor any other check,
\* before they take the lock.
PreLockMissing(c) == ""

\* Stands for a failure that sets no errno.
NOERRNO == "no errno"

\* The checks a function makes before mutex_lock: the errno it returns
\* with, "" when it goes on to take the lock.
PreLock(c) ==
    CASE c.op = "open" ->
           IF c.mode \cap {"O_WRONLY", "O_TRUNC"} # {} THEN "EROFS" ELSE ""
      [] c.op = "rename" ->
           IF c.fn = <<>> THEN "EINVAL"
           ELSE IF FS_EXT2_MOUNT_READWRITE \notin mount_flags THEN "EROFS"
           ELSE IF StrRChr(c.fn) = 0 THEN "EINVAL"
           ELSE ""
      [] c.op = "unlink" ->
           IF c.fn = <<>> THEN "EPERM"
           ELSE IF FS_EXT2_MOUNT_READWRITE \notin mount_flags THEN "EROFS"
           ELSE IF StrRChr(c.fn) = 0 THEN "EPERM"
           ELSE ""
      [] c.op = "mkdir" ->
           IF FS_EXT2_MOUNT_READWRITE \notin mount_flags THEN "EROFS"
           ELSE IF c.fn = <<>> THEN "EEXIST"
           ELSE IF StrRChr(c.fn) = 0 THEN "ENOENT"
           ELSE ""
      [] c.op = "rmdir" ->
           IF c.fn = <<>> \/ c.fn = <<SEP>> THEN "EPERM"
           ELSE IF FS_EXT2_MOUNT_READWRITE \notin mount_flags THEN "EROFS"
           ELSE IF StrRChr(c.fn) = 0 THEN "EPERM"
           ELSE ""
      [] c.op = "mount" ->
           IF FS_EXT2_MOUNT_READWRITE \in c.mode /\ c.n = 0 THEN NOERRNO ELSE ""
      [] OTHER -> ""

\* The value a function returns on failure: NULL for open, -1 otherwise.
FailRv(c) == IF c.op = "open" THEN 0 ELSE 0 - 1

\* Slots in use whose stored mode is 0 (no flag set).
PlainInUse == {s \in Slots : fh[s].inode_num # 0 /\ fh[s].mode = {}}

\* Thread t calls c, one of `calls`.  The callers open a file only while
\* fewer than maxopen slots are in use, and open with mode 0 only while
\* fewer than MaxPlain slots opened that way are in use.  A backend step
\* fails only while every inode has fewer than MaxRefs references.
Invoke(t, calls, maxopen) ==
    /\ pc[t] = "idle"
    /\ \E c \in calls :
          /\ c.fail # "" => \A i \in Inos : refs[i] < MaxRefs
          /\ c.op = "open" => Cardinality(InUse) < maxopen
          /\ (c.op = "open" /\ c.mode = {}) => Cardinality(PlainInUse) < MaxPlain
          /\ c.op = "mount" => \E i \in Mounts : mnts[i].mem = "none"
          /\ call' = [call EXCEPT ![t] = c]
          /\ IF PreLock(c) # ""
             THEN /\ ret' = [ret EXCEPT ![t] =
                             Ret(FailRv(c), IF PreLock(c) = NOERRNO THEN ""
                                            ELSE PreLock(c))]
                  /\ pc' = pc
             ELSE /\ ret' = [ret EXCEPT ![t] = Pending]
                  /\ pc' = [pc EXCEPT ![t] = "lock"]
    /\ UNCHANGED <<fh, lock, fd, held, inodes, dirs, refs, ub, mount_flags, lbs, snap,
                 ext2_fses, mnts, nmmgr>>

\* mutex_lock(&ext2_mutex) of a MUTEX_TYPE_NORMAL mutex: the caller waits
\* until the mutex is free, also when it is the holder itself.
MutexFree == lock = 0

Acquire(t) ==
    /\ pc[t] \in {"lock", "relock"}
    /\ MutexFree
    /\ lock' = t
    /\ pc' = [pc EXCEPT ![t] = IF pc[t] = "lock" THEN "run" ELSE "idle"]
    /\ UNCHANGED <<fh, call, ret, fd, held, inodes, dirs, refs, ub, mount_flags, lbs, snap,
                 ext2_fses, mnts, nmmgr>>

\* mutex_unlock and return: thread t is back at its caller with result r.
Return(t, r) ==
    /\ lock' = 0
    /\ pc' = [pc EXCEPT ![t] = "idle"]
    /\ ret' = [ret EXCEPT ![t] = r]

(***************************************************************************)
(* fs_ext2_open                                                            *)
(***************************************************************************)

\* The slot the scan "for(fd = 0; fd < MAX_EXT2_FILES; ++fd)" stops at:
\* the lowest slot whose inode_num is 0, MAX_EXT2_FILES when there is none.
FirstFree ==
    IF \E s \in Slots : fh[s].inode_num = 0
    THEN CHOOSE s \in Slots : fh[s].inode_num = 0 /\ \A q \in 0..(s-1) : fh[q].inode_num # 0
    ELSE MAX_EXT2_FILES

\* The scan and the reservation of the slot found.
OpenScan(t) ==
    /\ pc[t] = "run" /\ call[t].op = "open"
    /\ IF FirstFree >= MAX_EXT2_FILES
       THEN /\ Return(t, Ret(0, "ENFILE"))
            /\ UNCHANGED <<fh, fd>>
       ELSE /\ fh' = [fh EXCEPT ![FirstFree].inode_num = SENTINEL]
            /\ fd' = [fd EXCEPT ![t] = FirstFree]
            /\ pc' = [pc EXCEPT ![t] = "resolve"]
            /\ UNCHANGED <<lock, ret>>
    /\ UNCHANGED <<call, held, inodes, dirs, refs, ub, mount_flags, lbs, snap,
                 ext2_fses, mnts, nmmgr>>

\* The errno of an open whose path did not resolve.
OpenErrno(err, mode) ==
    IF err = "ENOENT" THEN (IF "O_CREAT" \in mode THEN "EROFS" ELSE "ENOENT")
    ELSE err

\* An open that makes no check of the type against the mode.
OpenModeCheckMissing(ino, mode) == ""

\* The errno of the open-mode checks on a resolved inode, "" when they pass.
OpenModeCheck(ino, mode) ==
    IF IsDir(ino) /\ ("O_WRONLY" \in mode \/ "O_DIR" \notin mode) THEN "EISDIR"
    ELSE IF "O_DIR" \in mode /\ ~IsDir(ino) THEN "ENOTDIR"
    ELSE ""

\* Path resolution into the reserved slot, the mode checks, and the rest of
\* the handle.
OpenResolve(t) ==
    /\ pc[t] = "resolve"
    /\ LET f == fd[t]
           c == call[t]
           r == IF c.fail = "by_path" THEN [err |-> "EIO", ino |-> 0]
                ELSE InodeByPathOn(c.mnt, c.fn)
           k == InodeKey(c.mnt, r.ino)
       IN  IF r.err # ""
           THEN \* fh[fd].inode still holds what an earlier open left there
                /\ fh' = [fh EXCEPT ![f].inode_num = 0]
                /\ refs' = RefPut(refs, fh[f].inode)
                /\ ub' = (ub \/ ~PutOK(refs, fh[f].inode))
                /\ Return(t, Ret(0, OpenErrno(r.err, c.mode)))
                /\ held' = held
           ELSE IF OpenModeCheck(k, c.mode) # ""
           THEN /\ fh' = [fh EXCEPT ![f].inode_num = 0, ![f].inode = k]
                /\ refs' = RefPut(RefGet(refs, k), k)
                /\ ub' = ub
                /\ Return(t, Ret(0, OpenModeCheck(k, c.mode)))
                /\ held' = held
           ELSE /\ fh' = [fh EXCEPT ![f].inode_num = r.ino, ![f].inode = k,
                                    ![f].mode = c.mode, ![f].ptr = 0, ![f].fs = c.mnt]
                /\ refs' = RefGet(refs, k)
                /\ ub' = ub
                /\ Return(t, Ret(f + 1, ""))
                /\ held' = held \cup {f + 1}
    /\ fd' = [fd EXCEPT ![t] = 0]
    /\ UNCHANGED <<call, inodes, dirs, mount_flags, lbs, snap,
                 ext2_fses, mnts, nmmgr>>

(***************************************************************************)
(* fs_ext2_close                                                           *)
(***************************************************************************)

\* "fd < MAX_EXT2_FILES && fh[fd].mode": the test close makes before it
\* releases the slot (fd is a valid index here).
CloseTest(f) == f < MAX_EXT2_FILES /\ fh[f].mode # {}

Close(t) ==
    /\ pc[t] = "run" /\ call[t].op = "close"
    /\ LET f == call[t].h - 1
       IN  IF f < 0
           THEN \* fh[-1] lies outside the table: what is read there is not
                \* determined; when it reads as non-zero, memory outside the
                \* table is written
                /\ ub' \in {ub, TRUE}
                /\ UNCHANGED <<fh, refs>>
           ELSE IF CloseTest(f)
           THEN /\ refs' = RefPut(refs, fh[f].inode)
                /\ ub' = (ub \/ ~PutOK(refs, fh[f].inode))
                /\ fh' = [fh EXCEPT ![f].inode_num = 0, ![f].mode = {}]
           ELSE UNCHANGED <<fh, refs, ub>>
    /\ held' = held \ {call[t].h}
    /\ Return(t, Ret(0, ""))
    /\ UNCHANGED <<call, fd, inodes, dirs, mount_flags, lbs, snap,
                 ext2_fses, mnts, nmmgr>>

(***************************************************************************)
(* Handle validation shared by read, seek, tell, total, readdir, fcntl     *)
(***************************************************************************)

\* "fd >= MAX_EXT2_FILES || !fh[fd].inode_num" for an index fd >= 0.
BadFd(f) == f >= MAX_EXT2_FILES \/ fh[f].inode_num = 0

\* The check of the file operations: a directory handle is refused too.
BadFileFd(f) == BadFd(f) \/ "O_DIR" \in fh[f].mode

\* A handle of 0 gives fd = -1 and the check reads fh[-1], outside the
\* table: it either reads as an unused slot (the call fails with e) or as
\* one in use (the call goes on with what lies before the table).
OutOfTable(t, e) ==
    /\ \/ Return(t, Ret(0 - 1, e)) /\ ub' = ub
       \/ Return(t, Ret(0 - 1, "")) /\ ub' = TRUE
    /\ UNCHANGED <<fh, refs>>

\* i_size of the inode a slot points to.
SizeOf(f) == inodes[fh[f].inode].size

(***************************************************************************)
(* fs_ext2_read                                                            *)
(***************************************************************************)
RECURSIVE Pow2(_)
Pow2(n) == IF n = 0 THEN 1 ELSE 2 * Pow2(n - 1)

\* ext2_block_size(fs)
BlockSize == Pow2(lbs)

\* A read that does not look at the file size: the count is taken as asked.
ClampCountMissing(p, cnt, size) == cnt

\* "if((fh[fd].ptr + cnt) > i_size) cnt = i_size - fh[fd].ptr;"
\* The sum is a uint64_t.
ClampCount(p, cnt, size) == IF (p + cnt) % U64 > size THEN (size - p) % U64 ELSE cnt

\* The first, partial block: "bo = ptr & ((1 << lbs) - 1); if(bo) ...".
\* Gives the cursor and the count left after it.
FirstBlock(p, cnt, bs) ==
    LET bo == p % bs
    IN  IF bo = 0 THEN [ptr |-> p, cnt |-> cnt]
        ELSE IF cnt > bs - bo THEN [ptr |-> p + (bs - bo), cnt |-> cnt - (bs - bo)]
        ELSE [ptr |-> p + cnt, cnt |-> 0]

\* "while(cnt)": whole blocks, then the last partial one.  k counts the
\* block fetches made so far; the fetch numbered failat fails (0: none).
\* Gives the cursor at the end and whether a fetch failed.
RECURSIVE BlockLoop(_, _, _, _, _)
BlockLoop(p, cnt, bs, k, failat) ==
    IF cnt = 0 THEN [ptr |-> p, failed |-> FALSE]
    ELSE IF k + 1 = failat THEN [ptr |-> p, failed |-> TRUE]
    ELSE IF cnt > bs THEN BlockLoop(p + bs, cnt - bs, bs, k + 1, failat)
    ELSE BlockLoop(p + cnt, 0, bs, k + 1, failat)

\* The whole transfer from cursor p with the clamped count cnt.
Transfer(p, cnt, bs, failat) ==
    IF p % bs # 0 /\ failat = 1 THEN [ptr |-> p, failed |-> TRUE]
    ELSE BlockLoop(FirstBlock(p, cnt, bs).ptr, FirstBlock(p, cnt, bs).cnt, bs,
                   IF p % bs # 0 THEN 1 ELSE 0, failat)

\* The block fetch a call's `fail` names.
FailAt(c) == CASE c.fail = "block1" -> 1 [] c.fail = "block2" -> 2 [] OTHER -> 0

Read(t) ==
    /\ pc[t] = "run" /\ call[t].op = "read"
    /\ LET f == call[t].h - 1
       IN  IF f < 0 THEN OutOfTable(t, "EINVAL")
           ELSE IF BadFileFd(f)
           THEN /\ Return(t, Ret(0 - 1, "EINVAL"))
                /\ UNCHANGED <<fh, refs, ub>>
           ELSE LET cnt == ClampCount(fh[f].ptr, call[t].n, SizeOf(f))
                    x == Transfer(fh[f].ptr, cnt, BlockSize, FailAt(call[t]))
                IN  /\ fh' = [fh EXCEPT ![f].ptr = x.ptr]
                    /\ Return(t, IF x.failed THEN Ret(0 - 1, "EIO") ELSE Ret(cnt, ""))
                    /\ UNCHANGED <<refs, ub>>
    /\ UNCHANGED <<call, fd, held, inodes, dirs, mount_flags, lbs, snap,
                 ext2_fses, mnts, nmmgr>>

(***************************************************************************)
(* fs_ext2_seek, fs_ext2_tell, fs_ext2_total                               *)
(***************************************************************************)

\* The cursor the switch on whence assigns (uint64_t arithmetic).
SeekTarget(p, size, offset, whence) ==
    CASE whence = "SEEK_SET" -> offset % U64
      [] whence = "SEEK_CUR" -> (p + offset) % U64
      [] whence = "SEEK_END" -> (size + offset) % U64

\* "if(fh[fd].ptr > i_size) fh[fd].ptr = i_size;"
CheckBounds(p, size) == IF p > size THEN size ELSE p

Seek(t) ==
    /\ pc[t] = "run" /\ call[t].op = "seek"
    /\ LET f == call[t].h - 1
           c == call[t]
       IN  IF f < 0 THEN OutOfTable(t, "EINVAL")
           ELSE IF BadFileFd(f)
           THEN /\ Return(t, Ret(0 - 1, "EINVAL"))
                /\ UNCHANGED <<fh, refs, ub>>
           ELSE IF c.whence \notin {"SEEK_SET", "SEEK_CUR", "SEEK_END"}
           THEN /\ Return(t, Ret(0 - 1, ""))
                /\ UNCHANGED <<fh, refs, ub>>
           ELSE LET p == CheckBounds(SeekTarget(fh[f].ptr, SizeOf(f), c.n, c.whence),
                                     SizeOf(f))
                IN  /\ fh' = [fh EXCEPT ![f].ptr = p]
                    /\ Return(t, Ret(p, ""))
                    /\ UNCHANGED <<refs, ub>>
    /\ UNCHANGED <<call, fd, held, inodes, dirs, mount_flags, lbs, snap,
                 ext2_fses, mnts, nmmgr>>

Tell(t) ==
    /\ pc[t] = "run" /\ call[t].op = "tell"
    /\ LET f == call[t].h - 1
       IN  IF f < 0 THEN OutOfTable(t, "EINVAL")
           ELSE /\ Return(t, IF BadFileFd(f) THEN Ret(0 - 1, "EINVAL")
                             ELSE Ret(fh[f].ptr, ""))
                /\ UNCHANGED <<fh, refs, ub>>
    /\ UNCHANGED <<call, fd, held, inodes, dirs, mount_flags, lbs, snap,
                 ext2_fses, mnts, nmmgr>>

Total(t) ==
    /\ pc[t] = "run" /\ call[t].op = "total"
    /\ LET f == call[t].h - 1
       IN  IF f < 0 THEN OutOfTable(t, "EINVAL")
           ELSE /\ Return(t, IF BadFileFd(f) THEN Ret(0 - 1, "EINVAL")
                             ELSE Ret(SizeOf(f), ""))
                /\ UNCHANGED <<fh, refs, ub>>
    /\ UNCHANGED <<call, fd, held, inodes, dirs, mount_flags, lbs, snap,
                 ext2_fses, mnts, nmmgr>>

(***************************************************************************)
(* fs_ext2_readdir.  A directory's contents are a sequence of units, the   *)
(* room the smallest entry takes; i_size and fh[].ptr are counted in       *)
(* units.  The entry at offset p is dirs[..][p + 1]; an entry of rec_len 2 *)
(* is followed by one unit of slack that no cursor should rest on.         *)
(***************************************************************************)

\* i_size of the directory a slot points to.
DirSizeOf(f) == Len(dirs[fh[f].inode])

\* A listing that does not step over deleted entries.
SkipBlankMissing(d, p) == p

\* A listing that steps over a deleted entry by one unit whatever its
\* record length.
SkipLenUnit(e) == 1

\* "fh[fd].ptr += dent->rec_len": how far an entry moves the cursor.
SkipLen(e) == e.rec_len

\* The "retry" loop: entries whose inode is 0 are stepped over.  Gives the
\* cursor where the loop ends: at the end of the directory, at an entry
\* whose rec_len is 0, or at the first live entry at or after p.
RECURSIVE SkipBlank(_, _)
SkipBlank(d, p) ==
    IF p >= Len(d) THEN p
    ELSE IF d[p + 1].rec_len = 0 THEN p
    ELSE IF d[p + 1].inode = 0 THEN SkipBlank(d, p + SkipLen(d[p + 1]))
    ELSE p

\* The loop comes to a second block fetch from cursor p: the entry at p is
\* a deleted one and the directory does not end behind it.
SecondFetch(d, p) ==
    /\ p < Len(d) /\ d[p + 1].rec_len # 0 /\ d[p + 1].inode = 0
    /\ p + SkipLen(d[p + 1]) < Len(d)

\* "!(fh[fd].mode & O_DIR)": readdir wants a directory handle.
BadDirFd(f) == BadFd(f) \/ "O_DIR" \notin fh[f].mode

Readdir(t) ==
    /\ pc[t] = "run" /\ call[t].op = "readdir"
    /\ LET f == call[t].h - 1
           c == call[t]
       IN  IF f < 0 THEN OutOfTable(t, "EINVAL")
           ELSE IF BadDirFd(f)
           THEN /\ Return(t, Ret(0, "EINVAL"))
                /\ UNCHANGED <<fh, refs, ub>>
           ELSE LET d == dirs[fh[f].inode]
                    q == SkipBlank(d, fh[f].ptr)
                IN  IF fh[f].ptr < Len(d) /\ c.fail = "block1"
                    THEN /\ Return(t, Ret(0, "EIO"))
                         /\ UNCHANGED <<fh, refs, ub>>
                    ELSE IF c.fail = "block2" /\ SecondFetch(d, fh[f].ptr)
                    THEN /\ fh' = [fh EXCEPT ![f].ptr = @ + SkipLen(d[@ + 1])]
                         /\ Return(t, Ret(0, "EIO"))
                         /\ UNCHANGED <<refs, ub>>
                    ELSE IF q >= DirSizeOf(f)
                    THEN /\ fh' = [fh EXCEPT ![f].ptr = q]
                         /\ Return(t, Ret(0, ""))
                         /\ UNCHANGED <<refs, ub>>
                    ELSE IF d[q + 1].rec_len = 0
                    THEN \* "if(!dent->rec_len)": the directory is corrupted
                         /\ fh' = [fh EXCEPT ![f].ptr = q]
                         /\ Return(t, Ret(0, "EBADF"))
                         /\ UNCHANGED <<refs, ub>>
                    ELSE IF c.fail = "get"
                    THEN /\ fh' = [fh EXCEPT ![f].ptr = q]
                         /\ Return(t, Ret(0, "EIO"))
                         /\ UNCHANGED <<refs, ub>>
                    ELSE \* the entry's inode is fetched and put again
                         /\ fh' = [fh EXCEPT ![f].ptr = q + SkipLen(d[q + 1]),
                                             ![f].dent = d[q + 1].name]
                         /\ Return(t, Ret(f + 1, ""))
                         /\ UNCHANGED <<refs, ub>>
    /\ UNCHANGED <<call, fd, held, inodes, dirs, mount_flags, lbs, snap,
                 ext2_fses, mnts, nmmgr>>

(***************************************************************************)
(* fs_ext2_fcntl                                                           *)
(***************************************************************************)

\* The result of the switch on cmd (the call's `whence` holds the cmd).
FcntlResult(f, cmd) ==
    CASE cmd = "F_GETFL" -> [Ret(0, "") EXCEPT !.flags = fh[f].mode]
      [] cmd \in {"F_SETFL", "F_GETFD", "F_SETFD"} -> Ret(0, "")
      [] OTHER -> Ret(0 - 1, "EINVAL")

Fcntl(t) ==
    /\ pc[t] = "run" /\ call[t].op = "fcntl"
    /\ LET f == call[t].h - 1
       IN  IF f < 0 THEN OutOfTable(t, "EBADF")
           ELSE /\ Return(t, IF BadFd(f) THEN Ret(0 - 1, "EBADF")
                             ELSE FcntlResult(f, call[t].whence))
                /\ UNCHANGED <<fh, refs, ub>>
    /\ UNCHANGED <<call, fd, held, inodes, dirs, mount_flags, lbs, snap,
                 ext2_fses, mnts, nmmgr>>

(***************************************************************************)
(* Busy check shared by unlink, rmdir and rename                           *)
(***************************************************************************)

\* "for(irv = 0; irv < MAX_EXT2_FILES; ++irv) if(fh[irv].inode_num == ino)"
Busy(ino) == \E s \in Slots : fh[s].inode_num = ino

\* The result of ext2_inode_by_path when the call's `fail` names step k.
ByPath(c, k, path) ==
    IF c.fail = k THEN [err |-> "EIO", ino |-> 0] ELSE InodeByPath(path)

\* The element of a one-element set: The({F(x) : x \in {e}}) is F(e) with e
\* computed once.
The(S) == CHOOSE x \in S : TRUE

\* A result of int_rename or of a mutator body: the errno ("" for
\* success) and the backend state it leaves.
Out(e, ins, ds, rf) == [errno |-> e, inodes |-> ins, dirs |-> ds, refs |-> rf]

(***************************************************************************)
(* fs_ext2_unlink                                                          *)
(***************************************************************************)

\* An unlink that dereferences the leaf inode before it removes the entry.
UnlinkInodeDerefFirst(c, ent, pinode, ino, r2) ==
    LET rput == RefPut(RefPut(r2, pinode), ino)
    IN  IF IsDir(ino) THEN Out("EPERM", inodes, dirs, rput)
        ELSE IF Busy(ino) THEN Out("EBUSY", inodes, dirs, rput)
        ELSE IF c.fail = "deref" THEN Out("EIO", inodes, dirs, rput)
        ELSE IF c.fail = "rm"
        THEN Out("EIO", InodeDeref(inodes, ino, FALSE), dirs, rput)
        ELSE Out("", InodeDeref(inodes, ino, FALSE), RmEntry(dirs, pinode, ent), rput)

\* fs_ext2_unlink, lines 696-746, for the leaf inode ino; r2 holds the
\* references on pinode and ino, both put on every path.
UnlinkInode(c, ent, pinode, ino, r2) ==
    LET rput == RefPut(RefPut(r2, pinode), ino)
    IN  IF IsDir(ino) THEN Out("EPERM", inodes, dirs, rput)
        ELSE IF Busy(ino) THEN Out("EBUSY", inodes, dirs, rput)
        ELSE IF c.fail = "rm" THEN Out("EIO", inodes, dirs, rput)
        ELSE IF c.fail = "deref"
        THEN Out("EIO", inodes, RmEntry(dirs, pinode, ent), rput)
        ELSE Out("", InodeDeref(inodes, ino, FALSE), RmEntry(dirs, pinode, ent), rput)

\* fs_ext2_unlink, lines 669-694, once the parent pinode is resolved.
UnlinkFrom(c, ent, pinode, r1) ==
    IF ~IsDir(pinode) THEN Out("ENOTDIR", inodes, dirs, RefPut(r1, pinode))
    ELSE IF DirEntry(pinode, ent) = 0 THEN Out("ENOENT", inodes, dirs, RefPut(r1, pinode))
    ELSE IF c.fail = "get" THEN Out("EIO", inodes, dirs, RefPut(r1, pinode))
    ELSE UnlinkInode(c, ent, pinode, DirLookup(pinode, ent),
                     RefGet(r1, DirLookup(pinode, ent)))

\* The effect of the body between mutex_lock and the return.
UnlinkAt(c, pr) ==
    IF pr.err # "" THEN Out(pr.err, inodes, dirs, refs)
    ELSE UnlinkFrom(c, LeafOf(c.fn), pr.ino, RefGet(refs, pr.ino))

UnlinkBody(c) == The({UnlinkAt(c, pr) : pr \in {ByPath(c, "by_path", ParentOf(c.fn))}})

Unlink(t) ==
    /\ pc[t] = "run" /\ call[t].op = "unlink"
    /\ \E b \in {UnlinkBody(call[t])} :
           /\ inodes' = b.inodes
           /\ dirs' = b.dirs
           /\ refs' = b.refs
           /\ Return(t, IF b.errno = "" THEN Ret(0, "") ELSE Ret(0 - 1, b.errno))
    /\ UNCHANGED <<fh, call, fd, held, ub, mount_flags, lbs, snap,
                 ext2_fses, mnts, nmmgr>>

(***************************************************************************)
(* int_rename and fs_ext2_rename                                           *)
(***************************************************************************)

\* ext2_dir_is_empty: no live entry besides "." and "..".
DirIsEmpty(d, dir) ==
    \A i \in 1..Len(d[dir]) : d[dir][i].inode # 0 => d[dir][i].name \in {".", ".."}

\* int_rename, lines 483-512: the new entry is added to dpinode, the old
\* one removed from pinode, and a moved directory gets its ".." and the
\* link counts fixed.  (ins, ds, rf) is the state reached so far.
\* d4 is the directory state with the new entry added and the old removed.
RenameFix(c, pinode, finode_num, isfile, dpinode, ins, d4, rf) ==
    IF isfile THEN Out("", ins, d4, RefPut(rf, dpinode))
    ELSE IF c.fail = "redir" \/ DirEntryIn(d4, finode_num, <<"..">>) = 0
    THEN \* "return -EIO" with dpinode still referenced
         Out("EIO", ins, d4, rf)
    ELSE Out("", [ins EXCEPT ![pinode].links = @ - 1, ![dpinode].links = @ + 1],
             RedirEntry(d4, finode_num, <<"..">>, dpinode), RefPut(rf, dpinode))

\* d3 is the directory state with the new entry added.
RenameRemove(c, fn1, pinode, finode_num, isfile, dpinode, ins, d3, rf) ==
    IF c.fail = "rm2" \/ DirEntryIn(d3, pinode, fn1) = 0
    THEN Out("EIO", ins, d3, RefPut(rf, dpinode))
    ELSE The({RenameFix(c, pinode, finode_num, isfile, dpinode, ins, d4, rf) :
                 d4 \in {RmEntry(d3, pinode, fn1)}})

RenameMove(c, fn1, ent, pinode, finode_num, isfile, dpinode, ins, ds, rf) ==
    IF c.fail = "add" THEN Out("EIO", ins, ds, RefPut(rf, dpinode))
    ELSE The({RenameRemove(c, fn1, pinode, finode_num, isfile, dpinode, ins, d3, rf) :
                 d3 \in {AddEntry(ds, dpinode, ent, finode_num)}})

\* int_rename, lines 455-481: an existing destination entry is removed from
\* dpinode, its inode put and dereferenced; a directory also takes one link
\* from dpinode.  r2 holds the references on dpinode and dinode.
RenameOverwrite(c, fn1, ent, pinode, finode_num, isfile, dpinode, dino, isdir, r2) ==
    IF c.fail = "rm" THEN Out("EIO", inodes, dirs, RefPut(RefPut(r2, dpinode), dino))
    ELSE IF c.fail = "deref"
    THEN Out("EIO", inodes, RmEntry(dirs, dpinode, ent), RefPut(RefPut(r2, dino), dpinode))
    ELSE The({RenameMove(c, fn1, ent, pinode, finode_num, isfile, dpinode, ins, ds,
                         RefPut(r2, dino)) :
                 ins \in {IF isdir
                          THEN [InodeDeref(inodes, dino, isdir) EXCEPT ![dpinode].links = @ - 1]
                          ELSE InodeDeref(inodes, dino, isdir)},
                 ds \in {DerefDirs(RmEntry(dirs, dpinode, ent), inodes, dino, isdir)}})

\* int_rename, lines 403-452: the checks on an existing destination entry.
RenameOnto(c, fn1, ent, pinode, finode_num, isfile, dpinode, dino, r2) ==
    LET isdir == IsDir(dino)
        rboth == RefPut(RefPut(r2, dino), dpinode)
    IN  IF isdir /\ isfile THEN Out("EISDIR", inodes, dirs, rboth)
        ELSE IF isdir /\ c.fail = "is_empty" THEN Out("EIO", inodes, dirs, rboth)
        ELSE IF isdir /\ ~DirIsEmpty(dirs, dino) THEN Out("ENOTEMPTY", inodes, dirs, rboth)
        ELSE IF Busy(dino) THEN Out("EBUSY", inodes, dirs, rboth)
        ELSE RenameOverwrite(c, fn1, ent, pinode, finode_num, isfile, dpinode, dino,
                             isdir, r2)

\* int_rename once the destination parent dpinode is resolved (r1 holds
\* its reference).
RenameInto(c, fn1, ent, pinode, finode_num, isfile, dpinode, r1) ==
    IF ~IsDir(dpinode) THEN Out("ENOTDIR", inodes, dirs, RefPut(r1, dpinode))
    ELSE IF DirEntry(dpinode, ent) = 0
    THEN RenameMove(c, fn1, ent, pinode, finode_num, isfile, dpinode, inodes, dirs, r1)
    ELSE IF c.fail = "get2" THEN Out("EIO", inodes, dirs, RefPut(r1, dpinode))
    ELSE RenameOnto(c, fn1, ent, pinode, finode_num, isfile, dpinode,
                    DirLookup(dpinode, ent), RefGet(r1, DirLookup(dpinode, ent)))

\* int_rename(fs, fn1, fn2, pinode, finode, finode_num, isfile):
\* fn1 is the leaf in the source parent pinode, fn2 the destination path,
\* r0 the references held when it is called.
\* dp is what ext2_inode_by_path gave for the destination's parent.
IntRenameAt(c, fn1, fn2, pinode, finode_num, isfile, r0, dp) ==
    IF dp.err # "" THEN Out(dp.err, inodes, dirs, r0)
    ELSE RenameInto(c, fn1, LeafOf(fn2), pinode, finode_num, isfile, dp.ino,
                    RefGet(r0, dp.ino))

IntRename(c, fn1, fn2, pinode, finode_num, isfile, r0) ==
    IF StrRChr(fn2) = 0 THEN Out("EINVAL", inodes, dirs, r0)
    ELSE The({IntRenameAt(c, fn1, fn2, pinode, finode_num, isfile, r0, dp) :
                 dp \in {ByPath(c, "by_path2", ParentOf(fn2))}})

\* fs_ext2_rename, lines 586-611: the source inode is fetched, int_rename
\* runs, and both inodes are put.  r1 holds the reference on pinode.
RenameSource(c, ent, pinode, ino, r1) ==
    The({[errno |-> x.errno, inodes |-> x.inodes, dirs |-> x.dirs,
          refs |-> RefPut(RefPut(x.refs, pinode), ino), unlocked |-> FALSE] :
            x \in {IntRename(c, ent, c.fn2, pinode, ino, ~IsDir(ino), RefGet(r1, ino))}})

\* A return of fs_ext2_rename through mutex_unlock, nothing changed on disk.
RenameEarly(e, rf) ==
    [errno |-> e, inodes |-> inodes, dirs |-> dirs, refs |-> rf, unlocked |-> TRUE]

\* The body of fs_ext2_rename from its first mutex_lock to its last line:
\* [errno, inodes, dirs, refs, unlocked]; `unlocked` tells whether the path
\* taken ends with mutex_unlock or with the mutex_lock of line 612.
RenameFrom(c, ent, pinode, r1) ==
    IF ~IsDir(pinode) THEN RenameEarly("ENOTDIR", RefPut(r1, pinode))
    ELSE IF DirEntry(pinode, ent) = 0 THEN RenameEarly("ENOENT", RefPut(r1, pinode))
    ELSE IF c.fail = "get" THEN \* returns without putting pinode
                                RenameEarly("EIO", r1)
    ELSE RenameSource(c, ent, pinode, DirLookup(pinode, ent), r1)

RenameAt(c, pr) ==
    IF pr.err # "" THEN RenameEarly(pr.err, refs)
    ELSE RenameFrom(c, LeafOf(c.fn), pr.ino, RefGet(refs, pr.ino))

RenameBody(c) == The({RenameAt(c, pr) : pr \in {ByPath(c, "by_path", ParentOf(c.fn))}})

\* What the last statement before "return irv" does to the mutex: line 612
\* calls mutex_lock on the mutex the thread already holds.
\* ret[t] then holds irv and the errno already set, not yet returned.
RenameLeave(t, r) ==
    /\ lock' = lock
    /\ pc' = [pc EXCEPT ![t] = "relock"]
    /\ ret' = [ret EXCEPT ![t] = r]

Rename(t) ==
    /\ pc[t] = "run" /\ call[t].op = "rename"
    /\ \E b \in {RenameBody(call[t])} :
       LET r == IF b.errno = "" THEN Ret(0, "") ELSE Ret(0 - 1, b.errno)
       IN  /\ inodes' = b.inodes
           /\ dirs' = b.dirs
           /\ refs' = b.refs
           /\ IF b.unlocked THEN Return(t, r) ELSE RenameLeave(t, r)
    /\ UNCHANGED <<fh, call, fd, held, ub, mount_flags, lbs, snap,
                 ext2_fses, mnts, nmmgr>>

(***************************************************************************)
(* fs_ext2_mkdir                                                           *)
(***************************************************************************)

\* ext2_inode_alloc: the number of the inode it hands out, the lowest free
\* one, 0 when the volume has none.
InodeAlloc(ins) ==
    IF \A i \in Inos : ins[i].type # "free" THEN 0
    ELSE CHOOSE i \in Inos :
             ins[i].type = "free" /\ \A j \in Inos : j < i => ins[j].type # "free"

\* The new inode after "ninode->i_mode = inode->i_mode" and
\* ext2_dir_create_empty: the parent's type, and the links of "." and of
\* the entry to come.
CreateEmptyInode(ins, n, pino) ==
    [ins EXCEPT ![n] = [type |-> ins[pino].type, size |-> 0, links |-> 2]]

\* ext2_dir_create_empty: the block holding "." and "..".
CreateEmptyDir(d, n, pino) ==
    [d EXCEPT ![n] = <<Dirent(n, "."), Dirent(pino, "..")>>]

\* A mkdir that does not count the new directory in its parent.
MkdirLinkMissing(ins, pino) == ins

\* "++inode->i_links_count" on the parent, line 911.
MkdirLink(ins, pino) == [ins EXCEPT ![pino].links = @ + 1]

\* fs_ext2_mkdir, lines 875-920, for the parent pino whose reference is
\* counted in r1.  A failure after the allocation dereferences the new
\* inode but never puts ninode.
MkdirNew(c, nd, pino, n, r1) ==
    IF c.fail = "alloc" \/ n = 0 THEN Out("ENOSPC", inodes, dirs, RefPut(r1, pino))
    ELSE IF c.fail \in {"create", "add"}
    THEN Out("EIO", inodes, dirs, RefPut(RefGet(r1, n), pino))
    ELSE Out("", MkdirLink(CreateEmptyInode(inodes, n, pino), pino),
             AddEntry(CreateEmptyDir(dirs, n, pino), pino, nd, n),
             RefPut(RefPut(RefGet(r1, n), n), pino))

\* fs_ext2_mkdir, lines 857-873, once the parent is resolved: the parent's
\* type is not looked at.
MkdirIn(c, nd, pino, r1) ==
    IF DirEntry(pino, nd) # 0 THEN Out("EEXIST", inodes, dirs, RefPut(r1, pino))
    ELSE MkdirNew(c, nd, pino, InodeAlloc(inodes), r1)

MkdirAt(c, pr) ==
    IF pr.err # "" THEN Out(pr.err, inodes, dirs, refs)
    ELSE MkdirIn(c, LeafOf(c.fn), pr.ino, RefGet(refs, pr.ino))

MkdirBody(c) == The({MkdirAt(c, pr) : pr \in {ByPath(c, "by_path", ParentOf(c.fn))}})

Mkdir(t) ==
    /\ pc[t] = "run" /\ call[t].op = "mkdir"
    /\ \E b \in {MkdirBody(call[t])} :
           /\ inodes' = b.inodes
           /\ dirs' = b.dirs
           /\ refs' = b.refs
           /\ snap' = IF b.errno = ""
                      THEN [fn |-> call[t].fn, inodes |-> inodes, dirs |-> dirs]
                      ELSE NoSnap
           /\ Return(t, IF b.errno = "" THEN Ret(0, "") ELSE Ret(0 - 1, b.errno))
    /\ UNCHANGED <<fh, call, fd, held, ub, mount_flags, lbs,
                   ext2_fses, mnts, nmmgr>>

(***************************************************************************)
(* fs_ext2_rmdir                                                           *)
(***************************************************************************)

\* "--pinode->i_links_count", line 1050.
RmdirUnlink(ins, pinode) == [ins EXCEPT ![pinode].links = @ - 1]

\* fs_ext2_rmdir, lines 1004-1056, for the leaf inode ino; r2 holds the
\* references on pinode and ino.  When ext2_inode_deref fails pinode is
\* not put.
RmdirInode(c, ent, pinode, ino, r2) ==
    LET rput == RefPut(RefPut(r2, pinode), ino)
    IN  IF ~IsDir(ino) THEN Out("EPERM", inodes, dirs, rput)
        ELSE IF Busy(ino) THEN Out("EBUSY", inodes, dirs, rput)
        ELSE IF c.fail = "rm" THEN Out("EIO", inodes, dirs, rput)
        ELSE IF c.fail = "deref"
        THEN Out("EIO", inodes, RmEntry(dirs, pinode, ent), RefPut(r2, ino))
        ELSE Out("", RmdirUnlink(InodeDeref(inodes, ino, TRUE), pinode),
                 DerefDirs(RmEntry(dirs, pinode, ent), inodes, ino, TRUE), rput)

\* fs_ext2_rmdir, lines 977-1002, once the parent pinode is resolved.
RmdirFrom(c, ent, pinode, r1) ==
    IF ~IsDir(pinode) THEN Out("ENOTDIR", inodes, dirs, RefPut(r1, pinode))
    ELSE IF DirEntry(pinode, ent) = 0 THEN Out("ENOENT", inodes, dirs, RefPut(r1, pinode))
    ELSE IF c.fail = "get" THEN Out("EIO", inodes, dirs, RefPut(r1, pinode))
    ELSE RmdirInode(c, ent, pinode, DirLookup(pinode, ent),
                    RefGet(r1, DirLookup(pinode, ent)))

RmdirAt(c, pr) ==
    IF pr.err # "" THEN Out(pr.err, inodes, dirs, refs)
    ELSE RmdirFrom(c, LeafOf(c.fn), pr.ino, RefGet(refs, pr.ino))

RmdirBody(c) == The({RmdirAt(c, pr) : pr \in {ByPath(c, "by_path", ParentOf(c.fn))}})

Rmdir(t) ==
    /\ pc[t] = "run" /\ call[t].op = "rmdir"
    /\ \E b \in {RmdirBody(call[t])} :
           /\ inodes' = b.inodes
           /\ dirs' = b.dirs
           /\ refs' = b.refs
           /\ snap' = NoSnap
           /\ Return(t, IF b.errno = "" THEN Ret(0, "") ELSE Ret(0 - 1, b.errno))
    /\ UNCHANGED <<fh, call, fd, held, ub, mount_flags, lbs,
                   ext2_fses, mnts, nmmgr>>

(***************************************************************************)
(* fs_ext2_mount and fs_ext2_unmount                                       *)
(***************************************************************************)

\* malloc: the record it returns, the lowest one not allocated.
NewMount == CHOOSE i \in Mounts :
                mnts[i].mem = "none" /\ \A j \in Mounts : j < i => mnts[j].mem # "none"

\* The record at the head of the list has been freed: LIST_INSERT_HEAD
\* writes its back pointer into freed memory.
HeadFreed == ext2_fses # <<>> /\ mnts[Head(ext2_fses)].mem = "freed"

\* fs_ext2_mount, lines 1144-1191.  The record is put on the list before
\* nmmgr_handler_add is tried; when that fails the record is freed and
\* stays on the list.
Mount(t) ==
    /\ pc[t] = "run" /\ call[t].op = "mount"
    /\ LET c == call[t]
           m == NewMount
       IN  IF c.fail \in {"init", "mnt", "vfsh"}
           THEN /\ Return(t, Ret(0 - 1, ""))
                /\ UNCHANGED <<ext2_fses, mnts, nmmgr, ub>>
           ELSE /\ ext2_fses' = <<m>> \o ext2_fses
                /\ ub' = (ub \/ HeadFreed)
                /\ IF c.fail = "add"
                   THEN /\ mnts' = [mnts EXCEPT ![m] = [mem |-> "freed", mp |-> c.fn,
                                                        flags |-> c.mode]]
                        /\ nmmgr' = nmmgr
                        /\ Return(t, Ret(0 - 1, ""))
                   ELSE /\ mnts' = [mnts EXCEPT ![m] = [mem |-> "live", mp |-> c.fn,
                                                        flags |-> c.mode]]
                        /\ nmmgr' = nmmgr \cup {m}
                        /\ Return(t, Ret(0, ""))
    /\ UNCHANGED <<fh, call, fd, held, inodes, dirs, refs, mount_flags, lbs, snap>>

\* The list with its k-th record unlinked.
ListRemove(l, k) == SubSeq(l, 1, k - 1) \o SubSeq(l, k + 1, Len(l))

\* The strcmp of the LIST_FOREACH loop can take record i for mp: a live
\* record when it holds mp, a freed record whatever its memory holds now.
CanMatch(i, mp) == mnts[i].mem = "freed" \/ mnts[i].mp = mp
CanDiffer(i, mp) == mnts[i].mem = "freed" \/ mnts[i].mp # mp

\* fs_ext2_unmount: k is the position the loop stops at, 0 when it runs to
\* the end.  Reading a freed record, and unlinking and freeing it again,
\* is undefined.
Unmount(t) ==
    /\ pc[t] = "run" /\ call[t].op = "unmount"
    /\ \E k \in 0..Len(ext2_fses) :
          /\ k # 0 => CanMatch(ext2_fses[k], call[t].fn)
          /\ \A j \in 1..(IF k = 0 THEN Len(ext2_fses) ELSE k - 1) :
                CanDiffer(ext2_fses[j], call[t].fn)
          /\ ub' = (ub \/ \E j \in 1..(IF k = 0 THEN Len(ext2_fses) ELSE k) :
                              mnts[ext2_fses[j]].mem = "freed")
          /\ IF k = 0
             THEN /\ UNCHANGED <<ext2_fses, mnts, nmmgr>>
                  /\ Return(t, Ret(0 - 1, "ENOENT"))
             ELSE /\ ext2_fses' = ListRemove(ext2_fses, k)
                  /\ nmmgr' = nmmgr \ {ext2_fses[k]}
                  /\ mnts' = [mnts EXCEPT ![ext2_fses[k]] = NoMount]
                  /\ Return(t, Ret(0, ""))
    /\ UNCHANGED <<fh, call, fd, held, inodes, dirs, refs, mount_flags, lbs, snap>>

(***************************************************************************)
(* The callers: paths and calls drawn by the specifications                *)
(***************************************************************************)
PathA == <<SEP, "a">>
PathAX == <<SEP, "a", SEP, "x">>
PathAQ == <<SEP, "a", SEP, "q">>
PathBY == <<SEP, "b", SEP, "y">>
PathBZ == <<SEP, "b", SEP, "z">>
PathAD == <<SEP, "a", SEP, "d">>
PathB == <<SEP, "b">>
PathAUp == <<SEP, "a", SEP, "..">>
PathBD == <<SEP, "b", SEP, "d">>
PathAE1 == <<SEP, "a", SEP, "e1">>
PathAE2 == <<SEP, "a", SEP, "e2">>
PathRoot == <<SEP>>
PathX == <<"x">>
PathM1 == <<SEP, "m1">>
PathM2 == <<SEP, "m2">>
PathAXD == <<SEP, "a", SEP, "x", SEP, "d">>
PathADE == <<SEP, "a", SEP, "d", SEP, "e">>
PathQZ == <<SEP, "q", SEP, "z">>
PathY == <<SEP, "y">>
PathD == <<SEP, "d">>

OpenCall(fn, mode) == Call("open", fn, <<>>, mode, 0, 0, "", "")
CloseCall(h) == Call("close", <<>>, <<>>, {}, h, 0, "", "")
ReadCall(h, n, fail) == Call("read", <<>>, <<>>, {}, h, n, "", fail)
SeekCall(h, off, whence) == Call("seek", <<>>, <<>>, {}, h, off, whence, "")
TellCall(h) == Call("tell", <<>>, <<>>, {}, h, 0, "", "")
TotalCall(h) == Call("total", <<>>, <<>>, {}, h, 0, "", "")
ReaddirCall(h, fail) == Call("readdir", <<>>, <<>>, {}, h, 0, "", fail)
FcntlCall(h, cmd) == Call("fcntl", <<>>, <<>>, {}, h, 0, cmd, "")
UnlinkCall(fn, fail) == Call("unlink", fn, <<>>, {}, 0, 0, "", fail)
RenameCall(fn1, fn2, fail) == Call("rename", fn1, fn2, {}, 0, 0, "", fail)
MkdirCall(fn, fail) == Call("mkdir", fn, <<>>, {}, 0, 0, "", fail)
RmdirCall(fn, fail) == Call("rmdir", fn, <<>>, {}, 0, 0, "", fail)
\* dev is 1 when the device has write_blocks, 0 when it has not.
MountCall(mp, flags, dev, fail) == Call("mount", mp, <<>>, flags, 0, dev, "", fail)
UnmountCall(mp) == Call("unmount", mp, <<>>, {}, 0, 0, "", "")
\* An open through the handler of mount m.
OpenOn(m, fn, mode) == [OpenCall(fn, mode) EXCEPT !.mnt = m]

(***************************************************************************)
(* SpecTable: one thread opening and closing until the table is full       *)
(***************************************************************************)
TableHandles == {1, MAX_EXT2_FILES}

TableCalls ==
    {OpenCall(PathAX, {}), OpenCall(PathAX, {"O_CREAT"}), OpenCall(PathAQ, {}),
     OpenCall(PathAX, {"O_DIR"}), OpenCall(PathAX, {"O_WRONLY"})}
    \cup {CloseCall(h) : h \in TableHandles}

InitTable == InitWith({2}, {1}, {{}})

NextTable ==
    \/ Invoke(1, TableCalls, MAX_EXT2_FILES + 1)
    \/ Acquire(1)
    \/ OpenScan(1)
    \/ OpenResolve(1)
    \/ Close(1)

SpecTable == InitTable /\ [][NextTable]_vars

(***************************************************************************)
(* SpecIO: one thread reading and seeking through a file handle, over      *)
(* every file size and block size of the bounds                            *)
(***************************************************************************)
SeekOffsets == (0 - MaxLen)..MaxLen

IOCalls ==
    {OpenCall(PathAX, {})}
    \cup {ReadCall(1, n, "") : n \in 0..MaxLen}
    \cup {ReadCall(1, MaxLen, "block1"), ReadCall(1, MaxLen, "block2")}
    \cup {SeekCall(1, off, w) : off \in SeekOffsets,
                                w \in {"SEEK_SET", "SEEK_CUR", "SEEK_END"}}
    \cup {SeekCall(1, 0, "SEEK_DATA"), TellCall(1), TotalCall(1)}

InitIO == InitWith(0..MaxSize, 0..MaxLogBlock, {{}})

NextIO ==
    \/ Invoke(1, IOCalls, MaxOpen)
    \/ Acquire(1)
    \/ OpenScan(1)
    \/ OpenResolve(1)
    \/ Read(1)
    \/ Seek(1)
    \/ Tell(1)
    \/ Total(1)

SpecIO == InitIO /\ [][NextIO]_vars

(***************************************************************************)
(* SpecHandle: one thread using file and directory handles before and      *)
(* after it closes them                                                    *)
(***************************************************************************)
HandleSet == {1, 2}

HandleCalls ==
    {OpenCall(PathAX, {}), OpenCall(PathA, {"O_DIR"})}
    \cup {CloseCall(h) : h \in HandleSet}
    \cup {ReadCall(h, 1, "") : h \in HandleSet}
    \cup {SeekCall(h, 1, "SEEK_CUR") : h \in HandleSet}
    \cup {TellCall(h) : h \in HandleSet}
    \cup {TotalCall(h) : h \in HandleSet}
    \cup {ReaddirCall(h, "") : h \in HandleSet}
    \cup {ReaddirCall(1, "block1"), ReaddirCall(1, "get")}
    \cup {FcntlCall(h, "F_GETFL") : h \in HandleSet}
    \cup {FcntlCall(1, "F_SETFL"), FcntlCall(1, "F_DUPFD")}

InitHandle == InitWith({2}, {1}, {{}})

NextHandle ==
    \/ Invoke(1, HandleCalls, MaxOpen)
    \/ Acquire(1)
    \/ OpenScan(1)
    \/ OpenResolve(1)
    \/ Close(1)
    \/ Read(1)
    \/ Seek(1)
    \/ Tell(1)
    \/ Total(1)
    \/ Readdir(1)
    \/ Fcntl(1)

SpecHandle == InitHandle /\ [][NextHandle]_vars

(***************************************************************************)
(* SpecDir: one thread listing a directory that holds live and deleted     *)
(* entries in every arrangement of the bounds                              *)
(***************************************************************************)

\* The names of the entries of the listed directory, by position.
DirNames == <<"e1", "e2", "e3", "e4", "e5", "e6">>

\* The layouts of /a after "." and "..": entry i is called DirNames[i] and
\* is live (a link to inode 5) or deleted (inode 0).
DirLayouts ==
    UNION {{[i \in 1..n |-> Dirent(IF i \in live THEN 5 ELSE 0, DirNames[i])] :
               live \in SUBSET (1..n)} : n \in 0..MaxDirLen}

\* The links to inode 5 in a layout.
LinksIn(layout) == Cardinality({i \in 1..Len(layout) : layout[i].inode = 5})

InitDirOver(flags, layouts) ==
    /\ fh = [s \in Slots |-> FreeSlot]
    /\ lock = 0
    /\ pc = [t \in Threads |-> "idle"]
    /\ call = [t \in Threads |-> NoCall]
    /\ ret = [t \in Threads |-> Ret(0, "")]
    /\ fd = [t \in Threads |-> 0]
    /\ held = {}
    /\ \E layout \in layouts :
          /\ dirs = [i \in Inos |->
                       CASE i = 2 -> <<Dirent(2, "."), Dirent(2, ".."), Dirent(3, "a")>>
                         [] i = 3 -> <<Dirent(3, "."), Dirent(2, "..")>> \o layout
                         [] OTHER -> <<>>]
          /\ inodes = [i \in Inos |->
                         CASE i = 2 -> [type |-> "dir", size |-> 0, links |-> 3]
                           [] i = 3 -> [type |-> "dir", size |-> 0, links |-> 2]
                           [] i = 5 /\ LinksIn(layout) > 0
                                    -> [type |-> "reg", size |-> 1, links |-> LinksIn(layout)]
                           [] OTHER -> [type |-> "free", size |-> 0, links |-> 0]]
    /\ refs = [i \in Inos |-> 0]
    /\ ub = FALSE
    /\ mount_flags = flags
    /\ lbs = 1
    /\ snap = NoSnap
    /\ InitRegistry

InitDirWith(flags) == InitDirOver(flags, DirLayouts)

InitDir == InitDirWith({})

DirCalls ==
    {OpenCall(PathA, {"O_DIR"}), CloseCall(1), ReaddirCall(1, ""),
     ReaddirCall(1, "block1"), ReaddirCall(1, "get")}

NextDir ==
    \/ Invoke(1, DirCalls, MaxOpen)
    \/ Acquire(1)
    \/ OpenScan(1)
    \/ OpenResolve(1)
    \/ Close(1)
    \/ Readdir(1)

SpecDir == InitDir /\ [][NextDir]_vars

(***************************************************************************)
(* SpecRec: one thread listing a directory whose entries have record       *)
(* lengths of every size of the bounds, zero included                      *)
(***************************************************************************)

\* The room behind an entry of record length rl: units that hold no entry.
Slack(rl) == [k \in 1..(IF rl > 1 THEN rl - 1 ELSE 0) |-> DirentLen(0, "", 0)]

\* The units of the entries es[i], es[i+1], ...; entry j is called
\* DirNames[j].
RECURSIVE Flatten(_, _)
Flatten(es, i) ==
    IF i > Len(es) THEN <<>>
    ELSE <<DirentLen(es[i].ino, DirNames[i], es[i].rl)>> \o Slack(es[i].rl)
            \o Flatten(es, i + 1)

\* The layouts of /a after "." and "..": every entry is live (a link to
\* inode 5) or deleted, with a record length of 0..MaxRecLen.
RecLayouts ==
    UNION {{Flatten(es, 1) : es \in [1..n -> [ino : {0, 5}, rl : 0..MaxRecLen]]} :
              n \in 0..MaxRecEntries}

InitRec == InitDirOver({}, RecLayouts)

RecCalls ==
    {OpenCall(PathA, {"O_DIR"})}
      \cup {ReaddirCall(1, f) : f \in {"", "block1", "block2", "get"}}

\* The caller keeps one handle open at a time.
NextRec ==
    \/ Invoke(1, RecCalls, 1)
    \/ Acquire(1)
    \/ OpenScan(1)
    \/ OpenResolve(1)
    \/ Readdir(1)

SpecRec == InitRec /\ [][NextRec]_vars

\* The thread is scheduled whenever it can take a step.
FairSpecRec == SpecRec /\ WF_vars(NextRec)

(***************************************************************************)
(* SpecOpen: one thread opening paths that resolve and paths that do not,  *)
(* with and without the directory flag                                     *)
(***************************************************************************)
OpenPaths == {PathA, PathAX, PathAQ, PathAXD}

OpenTryCalls ==
    {OpenCall(fn, m) : fn \in OpenPaths, m \in {{}, {"O_DIR"}}}
      \cup {Call("open", PathAX, <<>>, {}, 0, 0, "", "by_path"),
            CloseCall(1), CloseCall(2)}

InitOpen == InitWith({2}, {1}, {{}, {FS_EXT2_MOUNT_READWRITE}})

NextOpen ==
    \/ Invoke(1, OpenTryCalls, MaxOpen + 1)
    \/ Acquire(1)
    \/ OpenScan(1)
    \/ OpenResolve(1)
    \/ Close(1)

SpecOpen == InitOpen /\ [][NextOpen]_vars

(***************************************************************************)
(* SpecMount: one thread mounting and unmounting                           *)
(***************************************************************************)
MountCalls ==
    {MountCall(mp, fl, dev, "") :
        mp \in {PathM1, PathM2}, fl \in {{}, {FS_EXT2_MOUNT_READWRITE}}, dev \in {0, 1}}
      \cup {MountCall(PathM1, {}, 1, f) : f \in {"init", "mnt", "vfsh", "add"}}
      \cup {UnmountCall(mp) : mp \in {PathM1, PathM2, PathMnt}}

InitMount == InitWith({2}, {1}, {{}})

NextMount ==
    \/ Invoke(1, MountCalls, MaxOpen)
    \/ Acquire(1)
    \/ Mount(1)
    \/ Unmount(1)

SpecMount == InitMount /\ [][NextMount]_vars

(***************************************************************************)
(* SpecRO: one thread calling the mutators, and opening and closing files, *)
(* on a mount that is not read-write                                       *)
(***************************************************************************)
ROPaths == {PathRoot, PathX, PathA, PathAX, PathAD}

ROCalls ==
    {UnlinkCall(fn, "") : fn \in ROPaths}
      \cup {MkdirCall(fn, "") : fn \in ROPaths}
      \cup {RmdirCall(fn, "") : fn \in ROPaths}
      \cup {RenameCall(fn, PathBZ, "") : fn \in ROPaths}
      \cup {OpenCall(PathAX, {"O_CREAT"}), OpenCall(PathA, {"O_DIR"}),
            CloseCall(1), CloseCall(2)}

InitRO == InitWith({2}, {1}, {{}})

NextRO ==
    \/ Invoke(1, ROCalls, MaxOpen)
    \/ Acquire(1)
    \/ OpenScan(1)
    \/ OpenResolve(1)
    \/ Close(1)

SpecRO == InitRO /\ [][NextRO]_vars

(***************************************************************************)
(* SpecUnlink: one thread unlinking names of a directory that holds hard   *)
(* links and deleted entries, on a read-write mount                        *)
(***************************************************************************)
UnlinkCalls ==
    {UnlinkCall(PathAE1, f) : f \in {"", "by_path", "get", "rm", "deref"}}
      \cup {UnlinkCall(PathAE2, ""), UnlinkCall(PathAE2, "rm"), UnlinkCall(PathA, ""),
            OpenCall(PathAE2, {"O_CREAT"}), CloseCall(1)}

InitUnlink == InitDirWith({FS_EXT2_MOUNT_READWRITE})

NextUnlink ==
    \/ Invoke(1, UnlinkCalls, MaxOpen)
    \/ Acquire(1)
    \/ OpenScan(1)
    \/ OpenResolve(1)
    \/ Close(1)
    \/ Unlink(1)

SpecUnlink == InitUnlink /\ [][NextUnlink]_vars

(***************************************************************************)
(* SpecRen: one thread making, removing and renaming directories on a      *)
(* read-write mount                                                        *)
(***************************************************************************)

\* A volume with the directories /a and /b, the file /a/x and two free
\* inodes.
InitRen ==
    /\ fh = [s \in Slots |-> FreeSlot]
    /\ lock = 0
    /\ pc = [t \in Threads |-> "idle"]
    /\ call = [t \in Threads |-> NoCall]
    /\ ret = [t \in Threads |-> Ret(0, "")]
    /\ fd = [t \in Threads |-> 0]
    /\ held = {}
    /\ inodes = [i \in Inos |->
                   CASE i = 2 -> [type |-> "dir", size |-> 0, links |-> 4]
                     [] i \in {3, 4} -> [type |-> "dir", size |-> 0, links |-> 2]
                     [] i = 5 -> [type |-> "reg", size |-> 1, links |-> 1]
                     [] OTHER -> [type |-> "free", size |-> 0, links |-> 0]]
    /\ dirs = [i \in Inos |->
                   CASE i = 2 -> <<Dirent(2, "."), Dirent(2, ".."),
                                   Dirent(3, "a"), Dirent(4, "b")>>
                     [] i = 3 -> <<Dirent(3, "."), Dirent(2, ".."), Dirent(5, "x")>>
                     [] i = 4 -> <<Dirent(4, "."), Dirent(2, "..")>>
                     [] OTHER -> <<>>]
    /\ refs = [i \in Inos |-> 0]
    /\ ub = FALSE
    /\ mount_flags = {FS_EXT2_MOUNT_READWRITE}
    /\ lbs = 1
    /\ snap = NoSnap
    /\ InitRegistry

RenCalls ==
    {MkdirCall(fn, "") : fn \in {PathAD, PathADE, PathBD}}
      \cup {RmdirCall(fn, "") : fn \in {PathAD, PathADE, PathBD, PathAUp}}
      \cup {RenameCall(PathAD, PathBD, ""), RenameCall(PathAD, PathBZ, ""),
            RenameCall(PathAD, PathAQ, ""), RenameCall(PathAD, PathAX, ""),
            RenameCall(PathAX, PathB, ""), RenameCall(PathAX, PathBD, ""),
            RenameCall(PathB, PathA, ""), RenameCall(PathB, PathA, "is_empty"),
            RenameCall(PathBD, PathAD, "is_empty"), RenameCall(PathA, PathAQ, ""),
            RenameCall(PathAD, PathADE, "")}

NextRen ==
    \/ Invoke(1, RenCalls, MaxOpen)
    \/ Acquire(1)
    \/ Mkdir(1)
    \/ Rmdir(1)
    \/ Rename(1)

SpecRen == InitRen /\ [][NextRen]_vars

(***************************************************************************)
(* SpecMk: one thread making and removing directories on a read-write      *)
(* mount                                                                   *)
(***************************************************************************)
MkCalls ==
    {MkdirCall(PathAD, f) : f \in {"", "by_path", "alloc", "create", "add"}}
      \cup {RmdirCall(PathAD, f) : f \in {"", "by_path", "get", "rm", "deref"}}
      \cup {MkdirCall(PathADE, ""), RmdirCall(PathADE, ""), RmdirCall(PathAX, ""),
            MkdirCall(PathAX, ""), RmdirCall(PathBZ, ""), MkdirCall(PathAXD, ""),
            OpenCall(PathAD, {"O_DIR"}), CloseCall(1)}

InitMk == InitWith({2}, {1}, {{FS_EXT2_MOUNT_READWRITE}})

NextMk ==
    \/ Invoke(1, MkCalls, MaxOpen)
    \/ Acquire(1)
    \/ OpenScan(1)
    \/ OpenResolve(1)
    \/ Close(1)
    \/ Mkdir(1)
    \/ Rmdir(1)

SpecMk == InitMk /\ [][NextMk]_vars

(***************************************************************************)
(* SpecSep: one thread calling the mutators with a path that has no        *)
(* separator, with paths whose parent or leaf is missing, and with paths   *)
(* that resolve, on a read-write mount                                     *)
(***************************************************************************)
SepPaths == {PathX, PathAQ, PathQZ, PathAX}

SepCalls ==
    {UnlinkCall(fn, "") : fn \in SepPaths}
      \cup {MkdirCall(fn, "") : fn \in SepPaths}
      \cup {RmdirCall(fn, "") : fn \in SepPaths}
      \cup {RenameCall(fn, PathBZ, "") : fn \in SepPaths}

InitSep == InitWith({2}, {1}, {{FS_EXT2_MOUNT_READWRITE}})

NextSep ==
    \/ Invoke(1, SepCalls, MaxOpen)
    \/ Acquire(1)
    \/ Unlink(1)
    \/ Rename(1)
    \/ Mkdir(1)
    \/ Rmdir(1)

SpecSep == InitSep /\ [][NextSep]_vars

(***************************************************************************)
(* SpecBad: one thread passing the handle 0, handles above the table and   *)
(* a handle it was given to every operation that takes a handle            *)
(***************************************************************************)
BadHandles == {0, MAX_EXT2_FILES + 1, MAX_EXT2_FILES + 2}

BadCalls ==
    {OpenCall(PathAX, {"O_CREAT"}), CloseCall(1), TellCall(1)}
      \cup {CloseCall(h) : h \in BadHandles}
      \cup {ReadCall(h, 1, "") : h \in BadHandles}
      \cup {SeekCall(h, 1, "SEEK_SET") : h \in BadHandles}
      \cup {TellCall(h) : h \in BadHandles}
      \cup {TotalCall(h) : h \in BadHandles}
      \cup {ReaddirCall(h, "") : h \in BadHandles}
      \cup {FcntlCall(h, "F_GETFL") : h \in BadHandles}

InitBad == InitWith({2}, {1}, {{}})

NextBad ==
    \/ Invoke(1, BadCalls, MaxOpen)
    \/ Acquire(1)
    \/ OpenScan(1)
    \/ OpenResolve(1)
    \/ Close(1)
    \/ Read(1)
    \/ Seek(1)
    \/ Tell(1)
    \/ Total(1)
    \/ Readdir(1)
    \/ Fcntl(1)

SpecBad == InitBad /\ [][NextBad]_vars

(***************************************************************************)
(* SpecTwo: one thread opening files and directories of two mounted        *)
(* volumes and unlinking, removing and renaming on the first, which is     *)
(* read-write; the second is not                                           *)
(***************************************************************************)

\* The inode objects of the second volume: its root holds the file y,
\* inode 6, and the directory d, inode 4.
OtherKeys == {OtherBase + 2, OtherBase + 4, OtherBase + 6}

\* Both volumes mounted: MNT as in InitVolume, and MNT2 at PathM1.
InitTwo ==
    /\ fh = [s \in Slots |-> FreeSlot]
    /\ lock = 0
    /\ pc = [t \in Threads |-> "idle"]
    /\ call = [t \in Threads |-> NoCall]
    /\ ret = [t \in Threads |-> Ret(0, "")]
    /\ fd = [t \in Threads |-> 0]
    /\ held = {}
    /\ inodes = [i \in Inos \cup OtherKeys |->
                   CASE i = 2 -> [type |-> "dir", size |-> 0, links |-> 4]
                     [] i \in {3, 4} -> [type |-> "dir", size |-> 0, links |-> 2]
                     [] i \in {5, 6} -> [type |-> "reg", size |-> 1, links |-> 1]
                     [] i = OtherBase + 2 -> [type |-> "dir", size |-> 0, links |-> 3]
                     [] i = OtherBase + 4 -> [type |-> "dir", size |-> 0, links |-> 2]
                     [] i = OtherBase + 6 -> [type |-> "reg", size |-> 1, links |-> 1]
                     [] OTHER -> [type |-> "free", size |-> 0, links |-> 0]]
    /\ dirs = [i \in Inos \cup OtherKeys |->
                   CASE i = 2 -> <<Dirent(2, "."), Dirent(2, ".."),
                                   Dirent(3, "a"), Dirent(4, "b")>>
                     [] i = 3 -> <<Dirent(3, "."), Dirent(2, ".."), Dirent(5, "x")>>
                     [] i = 4 -> <<Dirent(4, "."), Dirent(2, ".."), Dirent(6, "y")>>
                     [] i = OtherBase + 2 -> <<Dirent(2, "."), Dirent(2, ".."),
                                               Dirent(6, "y"), Dirent(4, "d")>>
                     [] i = OtherBase + 4 -> <<Dirent(4, "."), Dirent(2, "..")>>
                     [] OTHER -> <<>>]
    /\ refs = [i \in Inos \cup OtherKeys |-> 0]
    /\ ub = FALSE
    /\ mount_flags = {FS_EXT2_MOUNT_READWRITE}
    /\ lbs = 1
    /\ snap = NoSnap
    /\ ext2_fses = <<MNT2, MNT>>
    /\ mnts = [i \in Mounts |->
                 CASE i = MNT -> [mem |-> "live", mp |-> PathMnt, flags |-> mount_flags]
                   [] i = MNT2 -> [mem |-> "live", mp |-> PathM1, flags |-> {}]
                   [] OTHER -> NoMount]
    /\ nmmgr = {MNT, MNT2}

TwoCalls ==
    {OpenOn(MNT2, PathY, {"O_CREAT"}), OpenOn(MNT2, PathD, {"O_DIR"}),
     OpenCall(PathBY, {"O_CREAT"}), OpenCall(PathB, {"O_DIR"}),
     CloseCall(1), CloseCall(2),
     UnlinkCall(PathBY, ""), RmdirCall(PathB, ""), RenameCall(PathAX, PathBY, ""),
     RenameCall(PathA, PathB, "")}

NextTwo ==
    \/ Invoke(1, TwoCalls, MaxOpen)
    \/ Acquire(1)
    \/ OpenScan(1)
    \/ OpenResolve(1)
    \/ Close(1)
    \/ Unlink(1)
    \/ Rmdir(1)
    \/ Rename(1)

SpecTwo == InitTwo /\ [][NextTwo]_vars

(***************************************************************************)
(* SpecConc: two threads opening and closing concurrently                  *)
(***************************************************************************)
ConcCalls ==
    {OpenCall(PathAX, {}), OpenCall(PathAX, {"O_CREAT"}), OpenCall(PathA, {"O_DIR"}),
     OpenCall(PathAQ, {}), CloseCall(1), CloseCall(2)}

InitConc == InitWith({2}, {1}, {{}})

StepConc(t) ==
    \/ Invoke(t, ConcCalls, MaxOpen)
    \/ Acquire(t)
    \/ OpenScan(t)
    \/ OpenResolve(t)
    \/ Close(t)

NextConc == \E t \in Threads : StepConc(t)

SpecConc == InitConc /\ [][NextConc]_vars

(***************************************************************************)
(* SpecSeq: one thread opening, closing, unlinking and renaming            *)
(***************************************************************************)
SeqCalls ==
    {OpenCall(PathBY, {}), OpenCall(PathBY, {"O_CREAT"}), CloseCall(1), CloseCall(2),
     UnlinkCall(PathBY, ""), UnlinkCall(PathBY, "deref"), UnlinkCall(PathBZ, ""),
     RenameCall(PathAX, PathBZ, ""), RenameCall(PathAX, PathBY, ""),
     RenameCall(PathAQ, PathBZ, ""), RenameCall(PathAX, PathBZ, "get"),
     RenameCall(PathBY, PathBY, "")}

InitSeq == InitWith({2}, {1}, {{FS_EXT2_MOUNT_READWRITE}})

NextSeq ==
    \/ Invoke(1, SeqCalls, MaxOpen)
    \/ Acquire(1)
    \/ OpenScan(1)
    \/ OpenResolve(1)
    \/ Close(1)
    \/ Unlink(1)
    \/ Rename(1)

SpecSeq == InitSeq /\ [][NextSeq]_vars

(***************************************************************************)
(* Spec: two threads calling into the driver concurrently                  *)
(***************************************************************************)
MainCalls ==
    {OpenCall(PathBY, {"O_CREAT"}), CloseCall(1), TellCall(1),
     UnlinkCall(PathBY, ""), RenameCall(PathAX, PathBZ, "")}

Init == InitWith({2}, {1}, {{FS_EXT2_MOUNT_READWRITE}})

Step(t) ==
    \/ Invoke(t, MainCalls, MaxOpen)
    \/ Acquire(t)
    \/ OpenScan(t)
    \/ OpenResolve(t)
    \/ Close(t)
    \/ Tell(t)
    \/ Unlink(t)
    \/ Rename(t)

Next == \E t \in Threads : Step(t)

Spec == Init /\ [][Next]_vars

\* The scheduler runs every thread that can run, and the mutex is handed
\* to every waiter in turn.
Fairness == \A t \in Threads : WF_vars(Step(t)) /\ SF_vars(Acquire(t))

FairSpec == Spec /\ Fairness

(***************************************************************************)
(* Properties                                                              *)
(***************************************************************************)

\* A call of thread t has come back to its caller with result r.
Returns(t, r) == pc'[t] = "idle" /\ ret'[t] = r

\* Thread t is at the body of operation op, holding the lock.
AtBody(t, op) == pc[t] = "run" /\ call[t].op = op

\* Some handle the callers hold refers to inode ino.
HeldOn(ino) == \E h \in held : fh[h - 1].inode_num = ino

AllInUse == \A s \in Slots : fh[s].inode_num # 0

Min(a, b) == IF a < b THEN a ELSE b

\* C1: at most 16 handles are open at once; when every slot of the table is
\* in use an open fails with ENFILE and changes no slot; and when the caller
\* has closed one of the 16 handles it held (it holds fewer than 16), the
\* next open finds a slot, and an open of an existing regular file for
\* reading succeeds and returns a handle.
C1_TableExhaustion ==
    [][\A t \in Threads :
          /\ AtBody(t, "open") =>
                /\ Cardinality(held) <= MAX_EXT2_FILES
                /\ AllInUse => (Returns(t, Ret(0, "ENFILE")) /\ fh' = fh)
                /\ Cardinality(held) < MAX_EXT2_FILES => pc'[t] = "resolve"
          /\ (pc[t] = "resolve" /\ call[t] = OpenCall(PathAX, {})) =>
                (Returns(t, Ret(fd[t] + 1, "")) /\ fd[t] + 1 \in held')]_vars

\* C1, the state the claim excludes: the caller holds fewer than 16 handles
\* and its open has just failed with ENFILE.
C1_RefusedBelowLimit ==
    /\ pc[1] = "idle" /\ call[1].op = "open" /\ ret[1] = Ret(0, "ENFILE")
    /\ Cardinality(held) < MAX_EXT2_FILES

\* C2: close of a handle returned by a successful open, whatever its mode
\* (mode 0 included), marks the slot free (inode_num = 0) and releases the
\* slot's inode reference exactly once.
C2_CloseFreesSlot ==
    [][\A t \in Threads :
          (AtBody(t, "close") /\ call[t].h \in held) =>
             /\ fh'[call[t].h - 1].inode_num = 0
             /\ PutOK(refs, fh[call[t].h - 1].inode)
             /\ refs' = RefPut(refs, fh[call[t].h - 1].inode)]_vars

\* C2, the state the claim excludes: close(1) has returned and slot 0 is
\* still in use, its reference still out.
C2_ClosedSlotInUse ==
    /\ pc[1] = "idle" /\ call[1] = CloseCall(1) /\ 1 \notin held
    /\ fh[0].inode_num # 0 /\ refs[fh[0].inode] > 0

\* C3: on a handle that has been closed and not reissued since (a handle of
\* the table the callers do not hold), read, seek, tell, total, readdir and
\* fcntl fail with an invalid-handle error and change no state, and a
\* second close changes nothing: no reference is released again.
C3_ClosedHandleInvalid ==
    [][\A t \in Threads :
          (pc[t] = "run" /\ call[t].h \in 1..MAX_EXT2_FILES /\ call[t].h \notin held) =>
             /\ call[t].op \in {"read", "seek", "tell", "total"} =>
                   (Returns(t, Ret(0 - 1, "EINVAL")) /\ fh' = fh /\ refs' = refs)
             /\ call[t].op = "readdir" =>
                   (Returns(t, Ret(0, "EINVAL")) /\ fh' = fh /\ refs' = refs)
             /\ call[t].op = "fcntl" =>
                   (Returns(t, Ret(0 - 1, "EBADF")) /\ fh' = fh /\ refs' = refs)
             /\ call[t].op = "close" =>
                   (Returns(t, Ret(0, "")) /\ fh' = fh /\ refs' = refs)]_vars

\* C3, the state the claim excludes: tell on the closed handle 1 has
\* returned a cursor.
C3_ClosedHandleAnswers ==
    /\ pc[1] = "idle" /\ call[1] = TellCall(1) /\ 1 \notin held
    /\ ret[1].errno = "" /\ ret[1].rv >= 0

\* C4: whenever no call is in progress the lock is free, and no call waits
\* for the lock while it holds it (the lock is taken at most once per call
\* and released before the call returns).
C4_LockDiscipline ==
    /\ (\A t \in Threads : pc[t] = "idle") => lock = 0
    /\ \A t \in Threads : pc[t] \in {"lock", "relock"} => lock # t

\* C4, the state the claim excludes: a thread at mutex_lock holds the mutex.
C4_SelfDeadlock == \E t \in Threads : pc[t] = "relock" /\ lock = t

\* C5: under a fair scheduler every invoked operation eventually returns to
\* its caller: a rename that has resolved its source returns, and a call of
\* another thread made after it is granted the lock and completes.
C5_EveryCallReturns ==
    \A t \in Threads : (pc[t] # "idle") ~> (pc[t] = "idle")

\* C5, the state the claim excludes: one thread is stopped at the end of
\* rename with the lock, the other waits for the lock.
C5_AllStopped ==
    /\ pc[1] = "relock" /\ lock = 1 /\ call[1].op = "rename"
    /\ pc[2] = "lock"

\* C6: on a read-write mount, unlink of a regular file F fails with EBUSY
\* and changes neither the directories, the inodes nor the handle table
\* while a held handle refers to F's inode; once every handle on F has been
\* closed, unlink(F) succeeds and F's entry is gone from its parent.
C6_UnlinkBusy ==
    [][\A t \in Threads :
          (/\ AtBody(t, "unlink") /\ call[t].fail = ""
           /\ FS_EXT2_MOUNT_READWRITE \in mount_flags
           /\ InodeByPath(call[t].fn).err = ""
           /\ inodes[InodeByPath(call[t].fn).ino].type = "reg") =>
             /\ HeldOn(InodeByPath(call[t].fn).ino) =>
                   /\ Returns(t, Ret(0 - 1, "EBUSY"))
                   /\ dirs' = dirs /\ inodes' = inodes /\ fh' = fh
             /\ ~HeldOn(InodeByPath(call[t].fn).ino) =>
                   /\ Returns(t, Ret(0, ""))
                   /\ InodeByPath(call[t].fn)'.err = "ENOENT"]_vars

\* C6, the state the claim excludes: every handle has been closed and
\* unlink has failed with EBUSY.
C6_BusyAfterClose ==
    /\ pc[1] = "idle" /\ call[1] = UnlinkCall(PathBY, "") /\ held = {}
    /\ ret[1] = Ret(0 - 1, "EBUSY")

\* C7: on a read-write mount, rename of an existing regular file S to D,
\* with D's parent an existing directory and D not existing, returns
\* success; afterwards S resolves to not-found, D to the inode number S had,
\* and that inode's size and link count are what they were.
C7_RenameMoves ==
    [][\A t \in Threads :
          (/\ AtBody(t, "rename") /\ call[t].fail = ""
           /\ FS_EXT2_MOUNT_READWRITE \in mount_flags
           /\ InodeByPath(call[t].fn).err = ""
           /\ inodes[InodeByPath(call[t].fn).ino].type = "reg"
           /\ InodeByPath(ParentOf(call[t].fn2)).err = ""
           /\ IsDir(InodeByPath(ParentOf(call[t].fn2)).ino)
           /\ InodeByPath(call[t].fn2).err = "ENOENT") =>
             /\ Returns(t, Ret(0, ""))
             /\ InodeByPath(call[t].fn)'.err = "ENOENT"
             /\ InodeByPath(call[t].fn2)' = InodeByPath(call[t].fn)
             /\ inodes'[InodeByPath(call[t].fn).ino]
                   = inodes[InodeByPath(call[t].fn).ino]]_vars

\* C7, the state the claim excludes: the file has been moved and the call
\* has not returned, and cannot: it waits for the lock it holds.
C7_MovedNotReturned ==
    /\ pc[1] = "relock" /\ lock = 1 /\ call[1] = RenameCall(PathAX, PathBZ, "")
    /\ InodeByPath(PathAX).err = "ENOENT" /\ InodeByPath(PathBZ).ino = 5

\* C8: rename(S, D) where D is a regular file that a held handle refers to
\* returns EBUSY to the caller, and S and D, their link counts and every
\* directory entry are what they were.
C8_RenameOntoOpen ==
    [][\A t \in Threads :
          (/\ AtBody(t, "rename") /\ call[t].fail = ""
           /\ InodeByPath(call[t].fn).err = ""
           /\ InodeByPath(call[t].fn2).err = ""
           /\ inodes[InodeByPath(call[t].fn2).ino].type = "reg"
           /\ HeldOn(InodeByPath(call[t].fn2).ino)) =>
             /\ Returns(t, Ret(0 - 1, "EBUSY"))
             /\ dirs' = dirs /\ inodes' = inodes]_vars

\* C8, the state the claim excludes: the rename onto the open file has set
\* EBUSY and has not returned.
C8_BusyNotReturned ==
    /\ pc[1] = "relock" /\ lock = 1 /\ call[1] = RenameCall(PathAX, PathBY, "")
    /\ ret[1].errno = "EBUSY" /\ HeldOn(6)

\* C9: for a held file handle with cursor c and file size s, 0 <= c <= s,
\* a read of length n in which every block fetch succeeds returns
\* min(n, s - c), never more than s - c, and leaves the cursor at c plus the
\* count returned, for every block size and every offset of c in its block.
C9_ReadCount ==
    [][\A t \in Threads :
          (/\ AtBody(t, "read") /\ call[t].fail = ""
           /\ call[t].h \in held /\ ~BadFileFd(call[t].h - 1)) =>
             LET f == call[t].h - 1
                 c == fh[f].ptr
                 s == SizeOf(f)
             IN  /\ 0 <= c /\ c <= s
                 /\ Returns(t, Ret(Min(call[t].n, s - c), ""))
                 /\ ret'[t].rv <= s - c
                 /\ fh'[f].ptr = c + ret'[t].rv]_vars

\* C9, its case reached: with 2-byte blocks and a 6-byte file, a read of 4
\* from cursor 1 (one byte ending a block, one whole block, one byte of the
\* next) has returned 4 and left the cursor at 5.
C9_ReadAcrossBlocks ==
    /\ pc[1] = "idle" /\ call[1] = ReadCall(1, 4, "") /\ ret[1] = Ret(4, "")
    /\ 1 \in held /\ fh[0].ptr = 5 /\ lbs = 1 /\ SizeOf(0) = 6

\* C10: for a held file handle, seek from the start, the cursor or the end
\* sets and returns the cursor as the target (offset, cursor + offset,
\* size + offset; offset may be negative) clamped to [0, size]: a target
\* past the end gives size, a target before the start gives 0; and the
\* cursor stays within [0, size].
C10_SeekClamps ==
    [][\A t \in Threads :
          (/\ AtBody(t, "seek") /\ call[t].h \in held /\ ~BadFileFd(call[t].h - 1)
           /\ call[t].whence \in {"SEEK_SET", "SEEK_CUR", "SEEK_END"}) =>
             LET f == call[t].h - 1
                 s == SizeOf(f)
                 target == CASE call[t].whence = "SEEK_SET" -> call[t].n
                             [] call[t].whence = "SEEK_CUR" -> fh[f].ptr + call[t].n
                             [] call[t].whence = "SEEK_END" -> s + call[t].n
                 want == IF target < 0 THEN 0 ELSE IF target > s THEN s ELSE target
             IN  /\ Returns(t, Ret(want, ""))
                 /\ fh'[f].ptr = want]_vars

\* C10, the state the claim excludes: a seek to one byte before the start of
\* a non-empty file has returned the size of the file.
C10_NegativeGivesSize ==
    /\ pc[1] = "idle" /\ call[1] = SeekCall(1, 0 - 1, "SEEK_SET") /\ 1 \in held
    /\ SizeOf(0) > 0 /\ ret[1] = Ret(SizeOf(0), "") /\ fh[0].ptr = SizeOf(0)

\* The live entries of directory contents d, in layout order.
LiveSeq(d) == SelectSeq(d, LAMBDA e : e.inode # 0)

\* The number of live entries among the first p entries of d.
LiveBefore(d, p) == Cardinality({i \in 1..p : d[i].inode # 0})

\* C11: open leaves the cursor of a directory handle at the start, and the
\* readdir call made when k live entries lie before the cursor returns the
\* (k+1)-th live entry of the layout and leaves k+1 live entries before the
\* cursor, or, when k is the number N of live entries, returns
\* end-of-directory: so the calls on a freshly opened directory return the
\* N live entries in layout order, each once, never a deleted entry, and
\* the (N+1)-th returns end-of-directory.
C11_ReaddirLiveInOrder ==
    [][\A t \in Threads :
          /\ (pc[t] = "resolve" /\ pc'[t] = "idle" /\ ret'[t].rv # 0) =>
                fh'[fd[t]].ptr = 0
          /\ (/\ AtBody(t, "readdir") /\ call[t].fail = ""
              /\ call[t].h \in held /\ ~BadDirFd(call[t].h - 1)) =>
                LET f == call[t].h - 1
                    d == dirs[fh[f].inode]
                    k == LiveBefore(d, fh[f].ptr)
                IN  /\ fh[f].ptr <= Len(d)
                    /\ fh'[f].ptr <= Len(d)
                    /\ k < Len(LiveSeq(d)) =>
                          /\ Returns(t, Ret(f + 1, ""))
                          /\ fh'[f].dent = LiveSeq(d)[k + 1].name
                          /\ LiveBefore(d, fh'[f].ptr) = k + 1
                    /\ k = Len(LiveSeq(d)) =>
                          /\ Returns(t, Ret(0, ""))
                          /\ fh'[f].dent = fh[f].dent
                          /\ LiveBefore(d, fh'[f].ptr) = k]_vars

\* C11, its case reached: in a directory laid out as ".", "..", deleted,
\* live e2, deleted, live e4, the listing has returned e4 after passing
\* both deleted entries and stands at the end.
C11_ListedPastTombstones ==
    /\ pc[1] = "idle" /\ call[1] = ReaddirCall(1, "") /\ 1 \in held
    /\ Len(dirs[3]) = 6
    /\ dirs[3][3].inode = 0 /\ dirs[3][4].inode # 0
    /\ dirs[3][5].inode = 0 /\ dirs[3][6].inode # 0
    /\ fh[0].ptr = 6 /\ fh[0].dent = "e4" /\ ret[1] = Ret(1, "")

\* The live entries of a directory's contents, as a set.
LiveSet(d) == {d[i] : i \in {j \in 1..Len(d) : d[j].inode # 0}}

\* The inodes allocated in ins.
Allocated(ins) == {i \in Inos : ins[i].type # "free"}

\* C12: on a read-write mount, when rmdir(P) succeeds after a successful
\* mkdir(P) with no mkdir or rmdir in between, the parent directory has the
\* live entries and the link count it had before the mkdir, and the
\* allocated inodes are those allocated before the mkdir.
C12_MkdirRmdirRoundTrip ==
    [][\A t \in Threads :
          (/\ AtBody(t, "rmdir") /\ call[t].fn # <<>> /\ snap.fn = call[t].fn
           /\ FS_EXT2_MOUNT_READWRITE \in mount_flags
           /\ Returns(t, Ret(0, ""))) =>
             LET p == InodeByPath(ParentOf(call[t].fn)).ino
             IN  /\ LiveSet(dirs'[p]) = LiveSet(snap.dirs[p])
                 /\ inodes'[p].links = snap.inodes[p].links
                 /\ Allocated(inodes') = Allocated(snap.inodes)]_vars

\* C12, its case reached: /a/d was made and removed again; /a keeps the
\* deleted entry and has its two links.
C12_MadeAndRemoved ==
    /\ pc[1] = "idle" /\ call[1] = RmdirCall(PathAD, "") /\ ret[1] = Ret(0, "")
    /\ Len(dirs[3]) = 4 /\ dirs[3][4] = Dirent(0, "d")
    /\ inodes[3].links = 2 /\ inodes[7].type = "free"

\* The open flags that ask for writing, truncation or creation.
WriteIntent == {"O_WRONLY", "O_RDWR", "O_TRUNC", "O_CREAT"}

\* C13: an open whose mode carries write, read-write, truncate or create
\* intent returns no handle and sets EROFS, and no in-use slot of the handle
\* table has such a mode.
C13_WriteIntentRefused ==
    /\ \A s \in Slots : fh[s].inode_num # 0 => fh[s].mode \cap WriteIntent = {}
    /\ \A t \in Threads :
          (/\ pc[t] = "idle" /\ call[t].op = "open"
           /\ call[t].mode \cap WriteIntent # {}) => ret[t] = Ret(0, "EROFS")

\* C13, its case reached: open of the existing /b/y with O_CREAT returned
\* handle 1, and slot 0 carries the create flag.
C13_CreateHandleGranted ==
    /\ pc[1] = "idle" /\ call[1] = OpenCall(PathBY, {"O_CREAT"})
    /\ ret[1] = Ret(1, "") /\ 1 \in held
    /\ fh[0].inode_num = 6 /\ "O_CREAT" \in fh[0].mode

RECURSIVE Outstanding(_, _)
Outstanding(lo, hi) == IF lo > hi THEN 0 ELSE refs[lo] + Outstanding(lo + 1, hi)

\* C15: no ext2_inode_put is issued for a reference that is not held, and
\* whenever no call is in progress the number of outstanding inode
\* references equals the number of in-use handle slots.
C15_ReferencesBalanced ==
    /\ ~ub
    /\ (\A t \in Threads : pc[t] = "idle") =>
          Outstanding(ROOT_INO, 7) = Cardinality(InUse)

\* C15, its case reached: rmdir of /a/d returned EIO after ext2_inode_deref
\* failed; no slot is in use, no put was invalid, and the reference on the
\* parent /a is still outstanding.
C15_ParentLeakedByRmdir ==
    /\ pc[1] = "idle" /\ call[1] = RmdirCall(PathAD, "deref")
    /\ ret[1] = Ret(0 - 1, "EIO")
    /\ InUse = {} /\ ~ub /\ refs[3] = 1

\* The records on the mount list.
Registered == {ext2_fses[k] : k \in 1..Len(ext2_fses)}

\* C16: a mount call that fails leaves the mount list as it was, and every
\* record on the list is allocated and has its handler registered.
C16_FailedMountLeavesRegistry ==
    [][\A t \in Threads :
          (/\ call'[t].op = "mount" /\ pc[t] \in {"idle", "run"} /\ pc'[t] = "idle"
           /\ ret'[t].rv = 0 - 1) =>
             /\ ext2_fses' = ext2_fses
             /\ \A i \in Registered' : mnts'[i].mem = "live" /\ i \in nmmgr']_vars

\* C16, its case reached: mount of /m1 returned -1 after nmmgr_handler_add
\* failed; record 2 is freed, not registered, and at the head of the list.
C16_FreedRecordOnList ==
    /\ pc[1] = "idle" /\ call[1] = MountCall(PathM1, {}, 1, "add")
    /\ ret[1] = Ret(0 - 1, "")
    /\ ext2_fses = <<2, 1>> /\ mnts[2].mem = "freed" /\ 2 \notin nmmgr

\* The operations that change directories.
Mutators == {"rename", "unlink", "mkdir", "rmdir"}

\* Thread t calls mutator c, with non-empty paths, on a mount that is not
\* read-write.
CallsReadOnly(t, c) ==
    /\ pc[t] = "idle" /\ call'[t] = c
    /\ c.op \in Mutators /\ c.fn # <<>> /\ (c.op = "rename" => c.fn2 # <<>>)
    /\ FS_EXT2_MOUNT_READWRITE \notin mount_flags

\* C17 as stated: on a mount that is not read-write every rename, unlink,
\* mkdir and rmdir with non-empty paths returns -1 with EROFS and changes no
\* directory, no inode and no handle slot.
C17_ReadOnlyRefusesAll ==
    [][\A t \in Threads : \A c \in ROCalls :
          CallsReadOnly(t, c) =>
             /\ Returns(t, Ret(0 - 1, "EROFS"))
             /\ UNCHANGED <<dirs, inodes, fh>>]_vars

\* C17, amended: the same, except that rmdir of the root path "/" returns -1
\* with EPERM.
C17_ReadOnlyRefuses ==
    [][\A t \in Threads : \A c \in ROCalls :
          CallsReadOnly(t, c) =>
             /\ Returns(t, Ret(0 - 1, IF c.op = "rmdir" /\ c.fn = PathRoot
                                      THEN "EPERM" ELSE "EROFS"))
             /\ UNCHANGED <<dirs, inodes, fh>>]_vars

\* C17, its case reached: with /a/x open on a mount that is not read-write,
\* rename of /a/x to /b/z returned -1 with EROFS.
C17_RenameRefused ==
    /\ FS_EXT2_MOUNT_READWRITE \notin mount_flags
    /\ pc[1] = "idle" /\ call[1] = RenameCall(PathAX, PathBZ, "")
    /\ ret[1] = Ret(0 - 1, "EROFS") /\ InUse = {0}
    /\ DirLookup(3, <<"x">>) = 5

\* Every live directory entry refers to an allocated inode with a link
\* count above zero.
NoDanglingEntry ==
    \A d \in Inos : \A k \in 1..Len(dirs[d]) :
        dirs[d][k].inode # 0 =>
            /\ inodes[dirs[d][k].inode].type # "free"
            /\ inodes[dirs[d][k].inode].links > 0

\* The unlink of thread t has passed the busy check for its leaf.
UnlinkReachesRemoval(t) ==
    /\ AtBody(t, "unlink") /\ call[t].fail \in {"", "rm", "deref"}
    /\ LET pr == InodeByPath(ParentOf(call[t].fn))
       IN  /\ pr.err = "" /\ IsDir(pr.ino)
           /\ DirLookup(pr.ino, LeafOf(call[t].fn)) # 0
           /\ ~IsDir(DirLookup(pr.ino, LeafOf(call[t].fn)))
           /\ ~Busy(DirLookup(pr.ino, LeafOf(call[t].fn)))

\* C18: an unlink whose entry removal fails leaves entries and inodes as
\* they were, an unlink whose dereference fails has removed the entry and
\* left the inode as it was, a successful unlink has removed the entry and
\* dereferenced the inode once, and before and after every unlink no live
\* directory entry refers to an inode that is deallocated or has link
\* count zero.
C18_UnlinkRemovesEntryFirst ==
    [][\A t \in Threads :
          /\ NoDanglingEntry /\ NoDanglingEntry'
          /\ UnlinkReachesRemoval(t) =>
                LET p == InodeByPath(ParentOf(call[t].fn)).ino
                    ent == LeafOf(call[t].fn)
                    ino == DirLookup(p, ent)
                IN  /\ call[t].fail = "rm" => UNCHANGED <<dirs, inodes>>
                    /\ call[t].fail = "deref" =>
                          /\ dirs' = RmEntry(dirs, p, ent)
                          /\ inodes' = inodes
                          /\ Returns(t, Ret(0 - 1, "EIO"))
                    /\ call[t].fail = "" =>
                          /\ dirs' = RmEntry(dirs, p, ent)
                          /\ inodes' = InodeDeref(inodes, ino, FALSE)
                          /\ Returns(t, Ret(0, ""))]_vars

\* C18, its case reached: /a/e1 and /a/e2 were the two links to inode 5;
\* the unlink of /a/e1 failed in the dereference: the entry e1 is deleted,
\* e2 is live and inode 5 keeps both links.
C18_EntryGoneInodeKept ==
    /\ pc[1] = "idle" /\ call[1] = UnlinkCall(PathAE1, "deref")
    /\ ret[1] = Ret(0 - 1, "EIO")
    /\ Len(dirs[3]) = 4
    /\ dirs[3][3] = Dirent(0, "e1") /\ dirs[3][4] = Dirent(5, "e2")
    /\ inodes[5].links = 2

\* The rename of thread t has an existing source and an existing
\* destination that is a directory.
RenameOntoDir(t) ==
    /\ AtBody(t, "rename") /\ call[t].fail \in {"", "is_empty"}
    /\ InodeByPath(call[t].fn).err = ""
    /\ InodeByPath(call[t].fn2).err = ""
    /\ IsDir(InodeByPath(call[t].fn2).ino)

\* C19: rename of a file onto a directory returns EISDIR, of a directory
\* onto a non-empty directory ENOTEMPTY, and of a directory onto a
\* directory whose emptiness check fails EIO; in each case no directory
\* entry and no inode has changed.
C19_RenameTypeRules ==
    [][\A t \in Threads :
          RenameOntoDir(t) =>
             LET src == InodeByPath(call[t].fn).ino
                 dst == InodeByPath(call[t].fn2).ino
             IN  /\ ~IsDir(src) =>
                       Returns(t, Ret(0 - 1, "EISDIR")) /\ UNCHANGED <<dirs, inodes>>
                 /\ (IsDir(src) /\ call[t].fail = "is_empty") =>
                       Returns(t, Ret(0 - 1, "EIO")) /\ UNCHANGED <<dirs, inodes>>
                 /\ (IsDir(src) /\ call[t].fail = "" /\ ~DirIsEmpty(dirs, dst)) =>
                       Returns(t, Ret(0 - 1, "ENOTEMPTY")) /\ UNCHANGED <<dirs, inodes>>]_vars

\* C19, the state the claim excludes: the rename of /b onto the non-empty
\* /a has set ENOTEMPTY, changed nothing, and has not returned.
C19_NotEmptyNotReturned ==
    /\ pc[1] = "relock" /\ lock = 1 /\ call[1] = RenameCall(PathB, PathA, "")
    /\ ret[1] = Ret(0 - 1, "ENOTEMPTY")
    /\ DirLookup(ROOT_INO, <<"b">>) = 4 /\ DirLookup(3, <<"x">>) = 5

\* The positions of the entries of directory d that name a subdirectory.
SubdirEntries(d) ==
    {k \in 1..Len(dirs[d]) :
        /\ dirs[d][k].inode # 0 /\ dirs[d][k].name \notin {".", ".."}
        /\ inodes[dirs[d][k].inode].type = "dir"}

\* The directories reachable from the set S of directories.
RECURSIVE ReachableFrom(_)
ReachableFrom(S) ==
    LET N == S \cup UNION {{dirs[d][k].inode : k \in SubdirEntries(d)} : d \in S}
    IN  IF N = S THEN S ELSE ReachableFrom(N)

\* Every directory reachable from the root has link count 2 + the number
\* of its subdirectories.
LinkCountsRight ==
    \A d \in ReachableFrom({ROOT_INO}) :
        inodes[d].links = 2 + Cardinality(SubdirEntries(d))

\* The rename of thread t moves a directory to another parent and its
\* result is success.
MovesDirectory(t) ==
    /\ AtBody(t, "rename") /\ call[t].fail = ""
    /\ InodeByPath(call[t].fn).err = "" /\ IsDir(InodeByPath(call[t].fn).ino)
    /\ InodeByPath(ParentOf(call[t].fn2)).err = ""
    /\ InodeByPath(ParentOf(call[t].fn2)).ino # InodeByPath(ParentOf(call[t].fn)).ino
    /\ ret'[t] = Ret(0, "")

\* C20: when a rename has moved a directory from parent P to a different
\* parent Q, its ".." entry refers to Q, P has one link less and Q one
\* more (none more when a directory at the destination was overwritten);
\* and with mkdir, rmdir and rename calls whose backend calls all succeed,
\* every directory reachable from the root has link count 2 + the number of
\* its subdirectories.
C20_DirectoryLinkCounts ==
    [][/\ LinkCountsRight'
       /\ \A t \in Threads :
             MovesDirectory(t) =>
                LET src == InodeByPath(call[t].fn).ino
                    P == InodeByPath(ParentOf(call[t].fn)).ino
                    Q == InodeByPath(ParentOf(call[t].fn2)).ino
                    over == InodeByPath(call[t].fn2)
                IN  /\ DirLookupIn(dirs', src, <<"..">>) = Q
                    /\ inodes'[P].links = inodes[P].links - 1
                    /\ inodes'[Q].links = inodes[Q].links + 1
                          - (IF over.err = "" /\ IsDir(over.ino) THEN 1 ELSE 0)]_vars

\* C20, its case reached: rmdir of /a/.. returned success; the root has
\* link count 2 and still the subdirectories a and b.
C20_RootLinksDropped ==
    /\ pc[1] = "idle" /\ call[1] = RmdirCall(PathAUp, "") /\ ret[1] = Ret(0, "")
    /\ inodes[ROOT_INO].links = 2
    /\ SubdirEntries(ROOT_INO) = {3, 4}

\* The mkdir of thread t has a parent path that resolves, and no backend
\* call of it fails.
MkdirResolved(t) ==
    /\ AtBody(t, "mkdir") /\ call[t].fail = ""
    /\ InodeByPath(ParentOf(call[t].fn)).err = ""

\* C21: mkdir succeeds only when the parent path resolves to a directory
\* and the leaf name is absent from it; with a parent that is not a
\* directory it fails, with a leaf that exists it fails with EEXIST, and in
\* both cases no inode is allocated, no entry added and no link count
\* changed.
C21_MkdirParentAndLeaf ==
    [][\A t \in Threads :
          MkdirResolved(t) =>
             LET pino == InodeByPath(ParentOf(call[t].fn)).ino
                 leaf == LeafOf(call[t].fn)
             IN  /\ ~IsDir(pino) =>
                       /\ pc'[t] = "idle" /\ ret'[t].rv = 0 - 1
                       /\ UNCHANGED <<inodes, dirs>>
                 /\ (IsDir(pino) /\ DirEntry(pino, leaf) # 0) =>
                       /\ Returns(t, Ret(0 - 1, "EEXIST"))
                       /\ UNCHANGED <<inodes, dirs>>
                 /\ ret'[t] = Ret(0, "") =>
                       IsDir(pino) /\ DirEntry(pino, leaf) = 0]_vars

\* C21, the state the claim excludes: mkdir of /a/x/d, under the regular
\* file /a/x, returned success; inode 7 is allocated with the file's type,
\* the file holds an entry d and has one link more.
C21_MadeUnderFile ==
    /\ pc[1] = "idle" /\ call[1] = MkdirCall(PathAXD, "") /\ ret[1] = Ret(0, "")
    /\ inodes[5].type = "reg" /\ inodes[5].links = 2
    /\ inodes[7].type = "reg" /\ inodes[7].links = 2
    /\ dirs[5] = <<Dirent(7, "d")>>

\* The path of call c is not empty and holds no separator.
NoSeparator(c) == c.fn # <<>> /\ StrRChr(c.fn) = 0

\* The path of call c has a separator and its parent does not exist, or,
\* for the operations that need the leaf, its parent is a directory that
\* has no entry for the leaf.
NotFound(c) ==
    /\ StrRChr(c.fn) # 0
    /\ LET pr == InodeByPath(ParentOf(c.fn))
       IN  \/ pr.err = "ENOENT"
           \/ /\ c.op # "mkdir" /\ pr.err = "" /\ IsDir(pr.ino)
              /\ DirEntry(pr.ino, LeafOf(c.fn)) = 0

\* C22: rename, unlink, rmdir and mkdir of a non-empty path without a
\* separator fail with an errno that is not ENOENT and change nothing,
\* and ENOENT is what each of them returns when the parent or the leaf
\* does not exist.
C22_NoSeparatorDistinct ==
    [][\A t \in Threads :
          /\ (pc[t] = "idle" /\ call'[t].op \in Mutators /\ NoSeparator(call'[t])) =>
                /\ pc'[t] = "idle" /\ ret'[t].rv = 0 - 1
                /\ ret'[t].errno \notin {"", "ENOENT"}
                /\ UNCHANGED <<fh, inodes, dirs, refs>>
          /\ (pc[t] = "run" /\ call[t].op \in Mutators /\ call[t].fail = ""
                 /\ NotFound(call[t])) =>
                /\ Returns(t, Ret(0 - 1, "ENOENT"))
                /\ UNCHANGED <<fh, inodes, dirs, refs>>]_vars

\* C22, the state the claim excludes: mkdir of the path "x", which has no
\* separator, came back with ENOENT, the errno mkdir returns for a
\* missing parent.
C22_MkdirNoSeparatorNotFound ==
    /\ pc[1] = "idle" /\ call[1] = MkdirCall(PathX, "")
    /\ ret[1] = Ret(0 - 1, "ENOENT")

\* The operations that take a handle.
HandleOps == {"close", "read", "seek", "tell", "total", "readdir", "fcntl"}

\* Thread t is at the body of an operation that was passed handle 0 or a
\* handle above the table.
AtBadHandle(t) ==
    /\ pc[t] = "run" /\ call[t].op \in HandleOps
    /\ (call[t].h = 0 \/ call[t].h > MAX_EXT2_FILES)

\* C23: with handle 0 or a handle above 16, read, seek, tell, total,
\* readdir and fcntl fail with EINVAL or EBADF, close returns without
\* effect, and no access is made outside slots 0..15 of the table.
C23_HandleValidated ==
    [][\A t \in Threads :
          AtBadHandle(t) =>
             /\ pc'[t] = "idle"
             /\ IF call[t].op = "close" THEN ret'[t] = Ret(0, "")
                ELSE /\ ret'[t].errno \in {"EINVAL", "EBADF"}
                     /\ ret'[t].rv = (IF call[t].op = "readdir" THEN 0 ELSE 0 - 1)
             /\ UNCHANGED <<fh, refs, held>>
             /\ ub' = ub]_vars

\* C23, the state the claim excludes: tell of handle 0 has read the entry
\* before the table as that of an open file and returned without an
\* errno.
C23_ReadBeforeTable ==
    /\ pc[1] = "idle" /\ call[1] = TellCall(0)
    /\ ret[1] = Ret(0 - 1, "") /\ ub

\* The offsets at which the entries of d from offset p on start, following
\* the record lengths; the chain ends at an entry of record length 0.
RECURSIVE Starts(_, _)
Starts(d, p) ==
    IF p >= Len(d) THEN {}
    ELSE IF d[p + 1].rec_len = 0 THEN {p}
    ELSE {p} \cup Starts(d, p + d[p + 1].rec_len)

\* The first offset at or after p, among the entry starts of d and its
\* end, that is not a deleted entry of positive record length.
StopAt(d, p) ==
    LET C == {s \in Starts(d, 0) \cup {Len(d)} :
                 /\ s >= p
                 /\ s = Len(d) \/ d[s + 1].rec_len = 0 \/ d[s + 1].inode # 0}
    IN  CHOOSE s \in C : \A r \in C : s <= r

\* C24: a readdir call on a directory handle ends in one pass of its loop:
\* the cursor rests on entry starts only and never moves back, every entry
\* it passes has a positive record length, a call that returns no entry
\* has passed deleted entries only, an entry of record length 0 ends the
\* call with EBADF with the cursor on it, a returned entry moves the cursor
\* by its record length; and every call that has the lock returns.
C24_ReaddirTerminates ==
    /\ [][\A t \in Threads :
             (/\ AtBody(t, "readdir")
              /\ call[t].h \in held /\ ~BadDirFd(call[t].h - 1)) =>
                LET f == call[t].h - 1
                    d == dirs[fh[f].inode]
                    S == Starts(d, 0) \cup {Len(d)}
                    p == fh[f].ptr
                    q == fh'[f].ptr
                    s == StopAt(d, p)
                    passed == {x \in S : p <= x /\ x < q}
                IN  /\ pc'[t] = "idle"
                    /\ p \in S /\ q \in S /\ p <= q
                    /\ \A x \in passed : d[x + 1].rec_len > 0
                    /\ ret'[t].rv = 0 => \A x \in passed : d[x + 1].inode = 0
                    /\ ret'[t].rv # 0 =>
                          /\ s \in passed /\ q = s + d[s + 1].rec_len
                          /\ \A x \in passed : x # s => d[x + 1].inode = 0
                    /\ (call[t].fail = "" /\ s < Len(d) /\ d[s + 1].rec_len = 0) =>
                          Returns(t, Ret(0, "EBADF")) /\ q = s
                    /\ (call[t].fail = "" /\ s < Len(d) /\ d[s + 1].rec_len # 0) =>
                          Returns(t, Ret(f + 1, "")) /\ fh'[f].dent = d[s + 1].name
                    /\ (call[t].fail = "" /\ s = Len(d)) =>
                          Returns(t, Ret(0, "")) /\ q = s]_vars
    /\ \A t \in Threads : AtBody(t, "readdir") ~> (pc[t] = "idle")

\* C24, its case reached: in a directory laid out as ".", "..", a deleted
\* entry of record length 2 and an entry of record length 0, readdir
\* stepped over the deleted entry and returned EBADF with the cursor on
\* the entry of record length 0.
C24_StoppedAtZeroLength ==
    /\ pc[1] = "idle" /\ call[1] = ReaddirCall(1, "") /\ 1 \in held
    /\ ret[1] = Ret(0, "EBADF")
    /\ Len(dirs[3]) = 5
    /\ dirs[3][3] = DirentLen(0, "e1", 2)
    /\ dirs[3][5].rec_len = 0
    /\ fh[0].ptr = 4

\* The inode number that the unlink, rmdir or rename of call c would
\* delete or replace on the volume of MNT, 0 when there is none.
TargetOf(c) ==
    LET r == InodeByPath(IF c.op = "rename" THEN c.fn2 ELSE c.fn)
    IN  IF r.err = "" THEN r.ino ELSE 0

\* C25: with two mounts, an unlink, rmdir or rename on the first sets
\* EBUSY only when a slot in use holds a handle of the first mount on the
\* inode the call would delete or replace.
C25_BusyOnOwnMountOnly ==
    [][\A t \in Threads :
          (/\ pc[t] = "run" /\ call[t].op \in {"unlink", "rmdir", "rename"}
           /\ call[t].mnt = MNT /\ ret'[t].errno = "EBUSY") =>
             \E s \in Slots :
                /\ fh[s].inode_num # 0 /\ fh[s].fs = MNT
                /\ fh[s].inode_num = TargetOf(call[t])]_vars

\* C25, the state the claim excludes: the only handle open is on the file
\* y of the second mount, inode 6 there, and unlink of /b/y on the first
\* mount, inode 6 too, returned EBUSY.
C25_BusyByOtherMount ==
    /\ pc[1] = "idle" /\ call[1] = UnlinkCall(PathBY, "")
    /\ ret[1] = Ret(0 - 1, "EBUSY")
    /\ InUse = {0} /\ fh[0].fs = MNT2 /\ fh[0].inode_num = 6
    /\ DirLookup(4, <<"y">>) = 6

\* The rename of thread t names the same entry as source and destination:
\* the entry exists, no slot holds its inode, no backend call fails.
RenameOntoItself(t) ==
    /\ AtBody(t, "rename") /\ call[t].fail = ""
    /\ StrRChr(call[t].fn2) # 0
    /\ LeafOf(call[t].fn2) = LeafOf(call[t].fn)
    /\ InodeByPath(ParentOf(call[t].fn)).err = ""
    /\ InodeByPath(ParentOf(call[t].fn2)) = InodeByPath(ParentOf(call[t].fn))
    /\ InodeByPath(call[t].fn).err = ""
    /\ ~Busy(InodeByPath(call[t].fn).ino)

\* C26: a rename whose destination is the entry it moves leaves the
\* volume as it was: the entry still names the same inode, and the inode
\* is allocated with the link count it had.
C26_RenameOntoItselfKeeps ==
    [][\A t \in Threads :
          RenameOntoItself(t) =>
             LET pino == InodeByPath(ParentOf(call[t].fn)).ino
                 ino == InodeByPath(call[t].fn).ino
             IN  /\ DirLookupIn(dirs', pino, LeafOf(call[t].fn)) = ino
                 /\ inodes'[ino].type = inodes[ino].type
                 /\ inodes'[ino].links = inodes[ino].links]_vars

\* C26, the state the claim excludes: rename of /b/y to /b/y has set its
\* result to success; /b has no entry y any more and inode 6 is free.
C26_RenamedAway ==
    /\ pc[1] = "relock" /\ call[1] = RenameCall(PathBY, PathBY, "")
    /\ ret[1] = Ret(0, "")
    /\ DirLookup(4, <<"y">>) = 0
    /\ inodes[6].type = "free"

\* The directory a rename call would overwrite, 0 when there is none.
Overwritten(c) ==
    LET r == InodeByPath(c.fn2)
    IN  IF r.err = "" /\ IsDir(r.ino) THEN r.ino ELSE 0

\* C27: a rename whose result is success leaves every directory that was
\* reachable from the root reachable, except a directory it overwrote.
C27_RenameKeepsReachable ==
    [][\A t \in Threads :
          (AtBody(t, "rename") /\ ret'[t] = Ret(0, "")) =>
             \A d \in ReachableFrom({ROOT_INO}) :
                d \in ReachableFrom({ROOT_INO})' \/ d = Overwritten(call[t])]_vars

\* C27, the state the claim excludes: rename of /a to /a/q has set its
\* result to success; the root has no entry a, directory 3 holds itself
\* as q and is its own parent, and is not reachable from the root.
C27_MovedIntoItself ==
    /\ pc[1] = "relock" /\ call[1] = RenameCall(PathA, PathAQ, "")
    /\ ret[1] = Ret(0, "")
    /\ DirLookup(ROOT_INO, <<"a">>) = 0
    /\ DirLookup(3, <<"q">>) = 3 /\ DirLookup(3, <<"..">>) = 3
    /\ 3 \notin ReachableFrom({ROOT_INO})

\* The threads whose open has reserved slot s and not finished.
Reserving(s) == {t \in Threads : pc[t] = "resolve" /\ fd[t] = s}

\* C28: with threads opening and closing concurrently, every slot in use
\* belongs to exactly one outstanding handle or open in progress, every
\* outstanding handle has its slot in use, and an open that has reserved
\* a slot holds the lock until it has finished with the slot.
C28_SlotsUnique ==
    /\ \A s \in Slots :
          fh[s].inode_num # 0 =>
             Cardinality(Reserving(s)) + (IF s + 1 \in held THEN 1 ELSE 0) = 1
    /\ \A h \in held : fh[h - 1].inode_num # 0
    /\ \A t \in Threads : pc[t] \in {"run", "resolve"} => lock = t

\* C28, the state the claim excludes: both threads are back from their
\* calls, no handle is outstanding, and slot 0 is still in use after the
\* close of the handle opened on it with mode 0.
C28_SlotWithoutHandle ==
    /\ \A t \in Threads : pc[t] = "idle"
    /\ held = {} /\ InUse = {0} /\ fh[0].mode = {}
    /\ call[1] = OpenCall(PathAX, {}) /\ ret[1] = Ret(1, "")
    /\ call[2] = CloseCall(1) /\ ret[2] = Ret(0, "")

====
